---- MODULE Spec2Model ----
(***************************************************************************)
(* Mesh messaging engine of the offline emergency chat: MessageService     *)
(* (send path, receive path, relay, retry queue), DuplicateDetector and    *)
(* the parts of the envelope codec, CryptoService, BLEService and          *)
(* StorageService that MessageService calls.                               *)
(*                                                                         *)
(* Abstractions.  A device's BLE id, its identity public key and its       *)
(* number coincide; the devices that run a modelled MessageService are the *)
(* nodes (DOMAIN peers), device 0 is a device no node has in its peer      *)
(* table.  A shared secret is the unordered pair of the two                *)
(* identities.  A ciphertext is the pair (key, plaintext); decryption      *)
(* yields the plaintext exactly under the same key and an intact tag.      *)
(* A byte array (nonce, tag, ciphertext) is its length and its content.     *)
(* Serialized bytes are the sequence of the wire fields, each fixed-width  *)
(* field one element with the width the format gives it, each byte array   *)
(* one element.  The clock is in ms.                                       *)
(***************************************************************************)
EXTENDS Integers, Sequences, FiniteSets, TLC

VARIABLES
  now,          \* Date.now()
  peers,        \* per node: the Map<string, Peer> handed to MessageService
  links,        \* BLE connections (unordered pairs): BLEService.connectedDevices
  cache,        \* per node: DuplicateDetector.cache (messageId -> timestamp)
  net,          \* envelopes written to a peer's characteristic, not yet handled
  awaiting,     \* per node: handleIncomingMessage calls suspended in storeMessage
  storage,      \* per node: messages persisted by StorageService.storeMessage
  handled,      \* per node: handleIncomingMessage calls (inbound device, bytes)
  received,     \* per node: invocations of messageReceivedCallback
  relayed,      \* per node: invocations of relayMessage
  statusLog,    \* per node: invocations of messageStatusCallback
  sendLog,      \* per node: completed sendMessage calls (returned record)
  messageQueue, \* per node: keys of MessageService.messageQueue
  queued,       \* per node: the QueuedMessage objects (alive while referenced)
  retryRuns,    \* per node: processRetryQueue invocations suspended in a transmit
  retryLog,     \* per node: transmissions started by processRetryQueue
  lastTick,     \* per node: time of the last retry-timer callback that found work
  nextId,       \* next message id generateUUID returns
  injected,     \* number of inbound calls given by the environment
  detectorLog,  \* per node: direct calls of the DuplicateDetector methods
  codecLog,     \* calls of the envelope codec: input, output, output fed back
  peerCall,     \* per node: the last operation on the peer table (AppContext.peers)
  trusted,      \* per node: peer ids StorageService holds a trust entry for
  ble,          \* per node: BLEService's connection attempts, timers and listeners
  crypto,       \* the crypto service in use, and per device its key store and instance
  disk          \* per node: AsyncStorage's message lists and the storeMessage calls that read one

vars == <<now, peers, links, cache, net, awaiting, storage, handled, received, relayed,
          statusLog, sendLog, messageQueue, queued, retryRuns, retryLog,
          lastTick, nextId, injected, detectorLog, codecLog, peerCall, trusted, ble, crypto,
          disk>>

----------------------------------------------------------------------------
(* Program constants (src/src/utils/constants.ts) *)

MAX_MESSAGE_LENGTH == 500
INITIAL_MESSAGE_TTL == 10
CACHE_EXPIRATION_MS == 300000
MESSAGE_ENVELOPE_VERSION == 1
MAX_SEND_RETRIES == 3
RETRY_BASE_DELAY_MS == 1000
RETRY_TIMER_MS == 1000
MAX_CACHE_ENTRIES == 1000
CONNECTION_TIMEOUT_MS == 3000
RECONNECT_DELAY_MS == 2000

(* Bounds of the model *)

ChainNodes == 12      \* nodes of the linear chain
MaxIds == 2           \* message ids of inbound envelopes
MaxInbound == 2       \* inbound calls in the receive specification
MaxCalls == 3         \* inbound calls in the duplicate-cache specification
RetryIds == 1         \* messages sent in the retry specification
ChainIds == 1         \* messages sent in the chain
ChainTicks == 1       \* 1 s clock steps in the chain
MaxRuns == 2          \* processRetryQueue invocations in flight per node
StartTime == 1000     \* clock at construction
RetryTicks == 8       \* 1 s clock steps in the retry specification
MaxIdle == 1          \* idle periods as long as the cache expiration
LiveTicks == 8        \* timer periods in the retry-progress specification
MaxSends == 2         \* sendMessage calls in the send specification
DetectorIds == 3      \* message ids given to the duplicate detector
MaxDetectorCalls == 4 \* entries of the detector call log
BurstCalls == 1002    \* entries of the detector call log in the burst
MaxCodecCalls == 1    \* calls of the codec
PeerTicks == 1        \* 1 s clock steps in the peer-table specification
MaxAttempts == 2      \* connectToPeer calls in the connection specification
BleTicks == 4         \* 1 s clock steps in the connection specification
MaxKey == 2           \* values of a random key
MaxInitCalls == 3     \* initialize calls of device 1 in the identity specification

Node == DOMAIN peers
Foreign == 0
None == "none"                               \* null plaintext
Null == -1                                   \* null device id / public key
NoSecret == {}                               \* null shared secret
EnvelopeError == [error |-> "EnvelopeError"] \* deserializeEnvelope throws
SerializeError == <<>>                       \* serializeEnvelope throws
Texts == {"hi"}
SendTexts == {"", "hi", "max", "long"}       \* lengths 0, 2, 500, 501

----------------------------------------------------------------------------
(* CryptoService *)

\* deriveSenderId: prefix of the fingerprint (hash) of a public key
deriveSenderId(publicKey) == <<"sid", publicKey>>

\* performKeyExchange: commutative in the two identities
performKeyExchange(self, peerPublicKey) == {self, peerPublicKey}

\* a Uint8Array: its length and its content
Bytes(length, content) == [length |-> length, bytes |-> content]

\* text.length
textLength(text) ==
  CASE text = "" -> 0 [] text = "hi" -> 2 [] text = "max" -> MAX_MESSAGE_LENGTH
    [] OTHER -> MAX_MESSAGE_LENGTH + 1

\* XChaCha20-Poly1305: a 24-byte nonce, a 16-byte tag, and a ciphertext as
\* long as the plaintext
NPUBBYTES == 24
ABYTES == 16

encryptMessage(text, sharedSecret) ==
  [ciphertext |-> Bytes(textLength(text), <<sharedSecret, text>>),
   nonce |-> Bytes(NPUBBYTES, "n"), tag |-> Bytes(ABYTES, "ok")]

decryptMessage(encrypted, sharedSecret) ==
  IF encrypted.tag = Bytes(ABYTES, "ok") /\ encrypted.nonce = Bytes(NPUBBYTES, "n")
     /\ encrypted.ciphertext.length > 0
     /\ encrypted.ciphertext.bytes[1] = sharedSecret
  THEN encrypted.ciphertext.bytes[2]
  ELSE None

----------------------------------------------------------------------------
(* messageEnvelope.ts *)

\* mutant: the envelope is built with one hop less
createEnvelope_ttlMinus1(encrypted, messageId, senderId, recipientId, timestamp, ttl) ==
  [version |-> MESSAGE_ENVELOPE_VERSION, messageId |-> messageId,
   senderId |-> senderId, recipientId |-> recipientId,
   timestamp |-> timestamp, ttl |-> ttl - 1,
   encryptedPayload |-> encrypted.ciphertext,
   nonce |-> encrypted.nonce, tag |-> encrypted.tag]

createEnvelope(encrypted, messageId, senderId, recipientId, timestamp, ttl) ==
  [version |-> MESSAGE_ENVELOPE_VERSION, messageId |-> messageId,
   senderId |-> senderId, recipientId |-> recipientId,
   timestamp |-> timestamp, ttl |-> ttl,
   encryptedPayload |-> encrypted.ciphertext,
   nonce |-> encrypted.nonce, tag |-> encrypted.tag]

\* the checks of validateEnvelope (it throws EnvelopeError where this is
\* false); the ids of the model are all non-empty strings
validateEnvelope(e) ==
  /\ e.version = MESSAGE_ENVELOPE_VERSION
  /\ e.ttl >= 0 /\ e.ttl <= 255
  /\ e.timestamp > 0
  /\ e.nonce.length # 0 /\ e.tag.length # 0 /\ e.encryptedPayload.length # 0

\* A message id string is an integer: k > 0 is the canonical spelling of the
\* 16 bytes k (lower-case hex digits, hyphens after 8, 12, 16 and 20 digits),
\* otherSpelling(k) spells the same digits in upper case, and 0 is a string
\* that does not hold 32 hex digits.
otherSpelling(k) == -(k + 1)

\* messageId.replace(/-/g, '').length === 32
isUuid(messageId) == messageId # 0

\* the 16 bytes parseInt reads from the hex digits of the message id
uuidToBytes(messageId) == IF messageId > 0 THEN messageId ELSE -(messageId + 1)

\* the bytes as lower-case hex digits with the hyphens of a UUID
bytesToUuid(b) == b

\* A sender or recipient id string of 16 characters is a pair: <<"sid", k>>
\* is the lower-case hex prefix of the fingerprint of key k, <<"SID", k>> the
\* same digits in upper case, <<"dev", d>> the first 16 characters of device
\* id d (no hex string) and <<"hex", d>> the lower-case hex digits parseInt
\* makes of it; a string of another length is a tuple of another length.
hexToBytes(id) ==
  IF id[1] \in {"sid", "SID"} THEN <<"sid", id[2]>> ELSE <<"hex", id[2]>>

\* the 8 bytes as lower-case hex digits
bytesToHex(b) == b

\* TLC integers are 32 bits wide: a timestamp t >= Two53 stands for the
\* number 2^53 + (t - Two53), on the wire and in the envelope
Two53 == 2000000000

\* Number(view.getBigUint64(...)): the nearest double, ties to the even
\* mantissa; from 2^53 on the doubles are the even integers
toNumber(u) ==
  IF u < Two53 \/ (u - Two53) % 2 = 0 THEN u
  ELSE IF ((u - Two53 - 1) \div 2) % 2 = 0 THEN u - 1 ELSE u + 1

\* wire order of the fields; the byte arrays follow their length fields
WireFields ==
  <<"version", "messageId", "senderId", "recipientId", "timestamp", "ttl",
    "nonceLength", "nonce", "tagLength", "tag", "payloadLength", "payload">>

\* width in bytes of the fixed-width fields (0: a byte array)
FieldWidth == <<1, 16, 8, 8, 8, 1, 2, 0, 2, 0, 4, 0>>

\* data.length: the elements after the payload are further byte arrays
RECURSIVE byteLength(_)
byteLength(data) ==
  IF data = <<>> THEN 0
  ELSE LET i == Len(data)
       IN byteLength(SubSeq(data, 1, i - 1)) +
          (IF i > Len(FieldWidth) \/ FieldWidth[i] = 0 THEN data[i].length
           ELSE FieldWidth[i])

HEADER_BYTES == 50
MAX_NONCE_LENGTH == 1024
MAX_TAG_LENGTH == 1024
MAX_PAYLOAD_LENGTH == 10 * 1024 * 1024

\* validateEnvelope, then the id strings to bytes (a message id without 32
\* hex digits and a sender or recipient id not 16 characters long throw),
\* then the fields written in wire order
serializeEnvelope(e) ==
  IF ~validateEnvelope(e) THEN SerializeError
  ELSE IF ~isUuid(e.messageId) \/ Len(e.senderId) # 2 \/ Len(e.recipientId) # 2
  THEN SerializeError
  ELSE <<e.version, uuidToBytes(e.messageId), hexToBytes(e.senderId),
         hexToBytes(e.recipientId), e.timestamp, e.ttl % 256,
         e.nonce.length % 65536, e.nonce, e.tag.length % 65536, e.tag,
         e.encryptedPayload.length, e.encryptedPayload>>

\* mutant: the sender id and the recipient id are read in the other order
parsedEnvelope_swapIds(data) ==
  [version |-> data[1], messageId |-> bytesToUuid(data[2]),
   senderId |-> bytesToHex(data[4]), recipientId |-> bytesToHex(data[3]),
   timestamp |-> toNumber(data[5]), ttl |-> data[6],
   nonce |-> data[8], tag |-> data[10],
   encryptedPayload |-> IF Len(data) < 12 THEN Bytes(0, <<>>) ELSE data[12]]

\* the envelope read from bytes that passed the length checks
parsedEnvelope(data) ==
  [version |-> data[1], messageId |-> bytesToUuid(data[2]),
   senderId |-> bytesToHex(data[3]), recipientId |-> bytesToHex(data[4]),
   timestamp |-> toNumber(data[5]), ttl |-> data[6],
   nonce |-> data[8], tag |-> data[10],
   encryptedPayload |-> IF Len(data) < 12 THEN Bytes(0, <<>>) ELSE data[12]]

\* the checks deserializeEnvelope makes while it reads: whether data is
\* rejected before the envelope is validated
rejectsBytes(data) ==
  LET size == byteLength(data)
      afterNonce == 44 + data[7]
      afterTag == afterNonce + 2 + data[9]
  IN \/ size < HEADER_BYTES
     \/ data[1] # MESSAGE_ENVELOPE_VERSION
     \/ data[7] > MAX_NONCE_LENGTH
     \/ afterNonce > size
     \/ afterNonce + 2 > size
     \/ data[9] > MAX_TAG_LENGTH
     \/ afterTag > size
     \/ afterTag + 4 > size
     \/ data[11] > MAX_PAYLOAD_LENGTH
     \/ afterTag + 4 + data[11] # size

\* mutant: the envelope is not validated after parsing
deserializeEnvelope_noValidate(data) ==
  IF rejectsBytes(data) THEN EnvelopeError ELSE parsedEnvelope(data)

\* mutant: bytes after the payload are ignored
deserializeEnvelope_trailing(data) ==
  LET cut == IF Len(data) > Len(WireFields) THEN SubSeq(data, 1, Len(WireFields))
             ELSE data
  IN IF rejectsBytes(cut) THEN EnvelopeError
     ELSE IF validateEnvelope(parsedEnvelope(cut)) THEN parsedEnvelope(cut)
     ELSE EnvelopeError

deserializeEnvelope(data) ==
  IF rejectsBytes(data) THEN EnvelopeError
  ELSE IF validateEnvelope(parsedEnvelope(data)) THEN parsedEnvelope(data)
  ELSE EnvelopeError

----------------------------------------------------------------------------
(* DuplicateDetector *)

\* mutant: the lookup never finds an id
isDuplicate_never(c, messageId) == FALSE

\* mutant: the lookup finds every id
isDuplicate_always(c, messageId) == TRUE

isDuplicate(c, messageId) == messageId \in DOMAIN c

\* mutant: nothing is removed
pruneCache_keepAll(c, t) == c

\* mutant: entries are removed after half the expiration time
pruneCache_halfWindow(c, t) ==
  LET expirationThreshold == t - CACHE_EXPIRATION_MS \div 2
      keep == {id \in DOMAIN c : ~(c[id] < expirationThreshold)}
  IN [id \in keep |-> c[id]]

pruneCache(c, t) ==
  LET expirationThreshold == t - CACHE_EXPIRATION_MS
      keep == {id \in DOMAIN c : ~(c[id] < expirationThreshold)}
  IN [id \in keep |-> c[id]]

\* mutant: the id is not inserted
markAsProcessed_noInsert(c, messageId, t) == pruneCache(c, t)

markAsProcessed(c, messageId, t) ==
  pruneCache([id \in DOMAIN c \cup {messageId} |->
                IF id = messageId THEN t ELSE c[id]], t)

----------------------------------------------------------------------------
(* BLEService, StorageService *)

\* AsyncStorage may reject a write (storeMessage then throws)
storeFails == TRUE

getConnectedDevices(n) == UNION {l \ {n} : l \in {k \in links : n \in k}}

\* AsyncStorage of a node: the message list stored under the key of each
\* peer, and the storeMessage calls that have read their list and not yet
\* written it back
InitDisk == [items |-> [p \in {} |-> <<>>], reads |-> {}]

\* getItem(key) followed by JSON.parse, or [] when nothing is stored
getItem(items, peerId) == IF peerId \in DOMAIN items THEN items[peerId] ELSE <<>>

setItem(items, peerId, messages) ==
  [p \in DOMAIN items \cup {peerId} |-> IF p = peerId THEN messages ELSE items[p]]

\* storeMessage(message) from the return of getItem on: the list that was
\* read, with the message pushed, replaces the stored one
storeMessage(d, message, snapshot) ==
  [d EXCEPT !.items = setItem(@, message.peerId, Append(snapshot, message))]

----------------------------------------------------------------------------
(* MessageService: transmission *)

\* mutant: the excluded peer is not filtered out
devicesToSend_all(n, excludePeerId) == getConnectedDevices(n)

\* transmitToAllPeers: the devices sendData is called for
devicesToSend(n, excludePeerId) ==
  IF excludePeerId # Null
  THEN {id \in getConnectedDevices(n) : id # excludePeerId}
  ELSE getConnectedDevices(n)

\* the writes that reached the characteristic of a peer that is a node
Written(n, ok, data) ==
  {[src |-> n, dst |-> p, data |-> data] : p \in ok \cap Node}

\* mutant: one successful write is not enough
transmitSuccess_gt1(ok) == Cardinality(ok) > 1

\* transmitToAllPeers returns successCount > 0
transmitSuccess(ok) == Cardinality(ok) > 0

\* mutant: the sends are made one after the other and the first one that
\* throws ends them
sendResults_abort(devices, ok) ==
  [d \in {d \in devices : \A e \in devices : e < d => e \in ok} |-> d \in ok]

\* transmitToAllPeers: devicesToSend.map(async deviceId => try sendData ...),
\* the result per device sendData was called for; the writes to `ok` succeed
sendResults(devices, ok) == [d \in devices |-> d \in ok]

\* transmitToAllPeers(data, excludePeerId) at node n
transmitToAllPeers(n, excludePeerId, ok) ==
  LET results == sendResults(devicesToSend(n, excludePeerId), ok)
      sent == {d \in DOMAIN results : results[d]}
  IN [attempted |-> DOMAIN results, sent |-> sent,
      success |-> transmitSuccess(sent)]

Append1(f, n, x) == [f EXCEPT ![n] = Append(@, x)]

----------------------------------------------------------------------------
(* MessageService.sendMessage *)

\* mutant: the shared secret of the recipient is not checked
sendError_noSecretCheck(n, recipientId, text) ==
  IF textLength(text) > MAX_MESSAGE_LENGTH THEN "Message too long"
  ELSE IF textLength(text) = 0 THEN "Message cannot be empty"
  ELSE IF recipientId \notin DOMAIN peers[n] THEN "Recipient peer not found"
  ELSE None

\* the validation of sendMessage: the error thrown, or None
sendError(n, recipientId, text) ==
  IF textLength(text) > MAX_MESSAGE_LENGTH THEN "Message too long"
  ELSE IF textLength(text) = 0 THEN "Message cannot be empty"
  ELSE IF recipientId \notin DOMAIN peers[n] THEN "Recipient peer not found"
  ELSE IF peers[n][recipientId].sharedSecret = NoSecret THEN "No shared secret"
  ELSE None

\* the message of a sendMessage call that threw before creating one
NoMessage ==
  [id |-> Null, peerId |-> Null, text |-> "", timestamp |-> Null,
   sent |-> FALSE, delivered |-> FALSE, failed |-> FALSE]

queueMessageForRetry(q, messageId, peerId, serialized, t) ==
  [id \in DOMAIN q \cup {messageId} |->
     IF id = messageId
     THEN [messageId |-> messageId, peerId |-> peerId, serialized |-> serialized,
           attempts |-> 0, nextRetryTime |-> t + RETRY_BASE_DELAY_MS]
     ELSE q[id]]

\* sendMessage(recipientId, text, peers) of node n; each call leaves an entry
\* in sendLog: its arguments, the error thrown or None, the record returned,
\* the bytes handed to transmitToAllPeers, the devices connected, those
\* sendData was called for (written), those whose write succeeded (ok) and
\* those whose write would succeed (accepted)
SendMessage(n, recipientId, text, maxIds) ==
  /\ nextId <= maxIds
  /\ Len(sendLog[n]) < maxIds
  /\ IF sendError(n, recipientId, text) # None
     THEN \* thrown before any effect
          /\ sendLog' = Append1(sendLog, n,
               [args |-> <<recipientId, text>>,
                error |-> sendError(n, recipientId, text),
                message |-> NoMessage, data |-> SerializeError,
                connected |-> getConnectedDevices(n),
                written |-> {}, ok |-> {}, accepted |-> {}])
          /\ UNCHANGED <<nextId, storage, disk, net, messageQueue, queued, statusLog>>
     ELSE
       LET recipient == peers[n][recipientId]
           messageId == nextId
           timestamp == now
           senderId == deriveSenderId(n)
           recipientIdHash == IF recipient.publicKey # Null
                              THEN deriveSenderId(recipient.publicKey)
                              ELSE <<"dev", recipientId>>
           encrypted == encryptMessage(text, recipient.sharedSecret)
           envelope == createEnvelope(encrypted, messageId, senderId,
                                      recipientIdHash, timestamp, INITIAL_MESSAGE_TTL)
           serialized == serializeEnvelope(envelope)
           message == [id |-> messageId, peerId |-> recipientId, text |-> text,
                       timestamp |-> timestamp, sent |-> TRUE,
                       delivered |-> FALSE, failed |-> FALSE]
           entry == [args |-> <<recipientId, text>>, error |-> None,
                     message |-> message, data |-> serialized,
                     connected |-> getConnectedDevices(n),
                     written |-> {}, ok |-> {}, accepted |-> {}]
       IN /\ nextId' = nextId + 1
          /\ \/ \* storeMessage throws: the call fails before any transmission
                /\ storeFails
                /\ sendLog' = Append1(sendLog, n, [entry EXCEPT !.error = "storage"])
                /\ UNCHANGED <<storage, disk, net, messageQueue, queued, statusLog>>
             \/ \E ok \in SUBSET devicesToSend(n, Null) :
                LET tx == transmitToAllPeers(n, Null, ok)
                    sentEntry == [entry EXCEPT !.written = tx.attempted,
                                               !.ok = tx.sent, !.accepted = ok]
                IN /\ storage' = Append1(storage, n, message)
                   /\ disk' = [disk EXCEPT ![n] =
                        storeMessage(@, message, getItem(@.items, recipientId))]
                   /\ net' = net \cup Written(n, tx.sent, serialized)
                   /\ IF ~tx.success
                      THEN /\ queued' = [queued EXCEPT ![n] =
                                  queueMessageForRetry(@, messageId, recipientId,
                                                       serialized, now)]
                           /\ messageQueue' = [messageQueue EXCEPT ![n] =
                                                 @ \cup {messageId}]
                           /\ statusLog' = statusLog
                           /\ sendLog' = Append1(sendLog, n, sentEntry)
                      ELSE /\ statusLog' = Append1(statusLog, n,
                                                  <<messageId, "delivered">>)
                           /\ sendLog' = Append1(sendLog, n,
                                [sentEntry EXCEPT !.message.delivered = TRUE])
                           /\ UNCHANGED <<queued, messageQueue>>
  /\ UNCHANGED <<now, peers, detectorLog, codecLog, peerCall, trusted, ble, crypto, links, cache, awaiting, handled, received, relayed,
                 retryRuns, retryLog, lastTick, injected>>

----------------------------------------------------------------------------
(* MessageService.relayMessage *)

\* mutant: an envelope that arrives with ttl 0 is relayed as well
shouldRelay_atZero(envelope) == envelope.ttl >= 0

\* mutant: the last hop is not relayed
shouldRelay_gt1(envelope) == envelope.ttl > 1

\* the relay decision of handleIncomingMessage: if (envelope.ttl > 0)
shouldRelay(envelope) == envelope.ttl > 0

\* mutant: the ttl is not decremented
relayEnvelope_same(envelope) == envelope

relayEnvelope(envelope) == [envelope EXCEPT !.ttl = envelope.ttl - 1]

\* relayMessage(envelope, excludePeerId) with the writes to ok succeeding;
\* rest: the envelopes still in flight once the handled one is taken;
\* call: the handleIncomingMessage call that relays
RelayMessage(n, envelope, excludePeerId, ok, rest, call) ==
  LET serialized == serializeEnvelope(relayEnvelope(envelope))
      tx == transmitToAllPeers(n, excludePeerId, ok)
      attempted == IF serialized = SerializeError THEN {} ELSE tx.attempted
      sent == IF serialized = SerializeError THEN {} ELSE tx.sent
  IN /\ ok \subseteq devicesToSend(n, excludePeerId)
     /\ net' = rest \cup Written(n, sent, serialized)
     /\ relayed' = Append1(relayed, n,
          [messageId |-> envelope.messageId, inbound |-> excludePeerId,
           call |-> call, data |-> serialized, written |-> attempted,
           connected |-> getConnectedDevices(n)])

----------------------------------------------------------------------------
(* MessageService.handleIncomingMessage *)

\* the peer whose public key hashes to the envelope's sender id, else the
\* peer with the inbound device id, else None
findSenderPeer(n, envelopeSenderId, senderId) ==
  LET byKey == {p \in DOMAIN peers[n] :
                  /\ peers[n][p].publicKey # Null
                  /\ deriveSenderId(peers[n][p].publicKey) = envelopeSenderId}
  IN IF byKey # {} THEN CHOOSE p \in byKey : \A q \in byKey : p <= q
     ELSE IF senderId \in DOMAIN peers[n] THEN senderId
     ELSE Null

\* handleIncomingMessage(senderId, data, peers) up to its first await;
\* rest: the envelopes in flight once this one is taken
HandleIncomingMessage(n, senderId, data, rest) ==
  LET envelope == deserializeEnvelope(data)
      call == [senderId |-> senderId, data |-> data, at |-> now,
               seq |-> Len(handled[n]) + 1]
  IN IF envelope = EnvelopeError
     THEN \* malformed or invalid envelope: discarded
          /\ handled' = Append1(handled, n, [call |-> call, outcome |-> "invalid"])
          /\ net' = rest
          /\ UNCHANGED <<cache, awaiting, relayed>>
     ELSE IF isDuplicate(cache[n], envelope.messageId)
     THEN /\ handled' = Append1(handled, n, [call |-> call, outcome |-> "duplicate"])
          /\ net' = rest
          /\ UNCHANGED <<cache, awaiting, relayed>>
     ELSE
       LET sp == findSenderPeer(n, envelope.senderId, senderId)
           secret == IF sp = Null THEN NoSecret ELSE peers[n][sp].sharedSecret
           plaintext == IF secret = NoSecret THEN None
                        ELSE decryptMessage(
                               [ciphertext |-> envelope.encryptedPayload,
                                nonce |-> envelope.nonce,
                                tag |-> envelope.tag], secret)
       IN /\ cache' = [cache EXCEPT ![n] =
                          markAsProcessed(@, envelope.messageId, now)]
          /\ IF plaintext = None
             THEN \* cannot decrypt: still relay
                  /\ handled' = Append1(handled, n,
                                        [call |-> call, outcome |-> "undecryptable"])
                  /\ IF shouldRelay(envelope)
                     THEN \E ok \in SUBSET devicesToSend(n, senderId) :
                            RelayMessage(n, envelope, senderId, ok, rest, call)
                     ELSE /\ net' = rest
                          /\ relayed' = relayed
                  /\ awaiting' = awaiting
             ELSE \* decrypted: suspended in storeMessage
                  /\ handled' = Append1(handled, n,
                                        [call |-> call, outcome |-> "decrypted"])
                  /\ awaiting' = [awaiting EXCEPT ![n] = @ \cup
                       {[envelope |-> envelope, call |-> call,
                         message |-> [id |-> envelope.messageId,
                                      peerId |-> sp, text |-> plaintext,
                                      timestamp |-> envelope.timestamp,
                                      sent |-> FALSE, delivered |-> TRUE,
                                      failed |-> FALSE]]}]
                  /\ net' = rest
                  /\ relayed' = relayed

\* BLEService data-received callback for bytes written by a peer of the mesh
Deliver(n) ==
  /\ \E m \in net : m.dst = n /\ HandleIncomingMessage(n, m.src, m.data, net \ {m})
  /\ UNCHANGED <<now, peers, detectorLog, codecLog, peerCall, trusted, ble, crypto, disk, links, storage, received, statusLog, sendLog,
                 messageQueue, queued, retryRuns, retryLog, lastTick, nextId,
                 injected>>

\* BLEService data-received callback for bytes written by any device
OnDataReceived(n, deviceId, data, maxCalls) ==
  /\ injected < maxCalls
  /\ injected' = injected + 1
  /\ HandleIncomingMessage(n, deviceId, data, net)
  /\ UNCHANGED <<now, peers, detectorLog, codecLog, peerCall, trusted, ble, crypto, disk, links, storage, received, statusLog, sendLog,
                 messageQueue, queued, retryRuns, retryLog, lastTick, nextId>>

\* mutant: a storeMessage that throws is caught and the handler goes on
continuesAfterStore_always(stored) == TRUE

\* whether handleIncomingMessage goes on to the callback and the relay after
\* `await storeMessage`: a throw leaves the try block for the outer catch
continuesAfterStore(stored) == stored

\* storeMessage of a suspended handler up to the return of getItem: the
\* stored list of the peer is read
StoreMessageGetItem(n) ==
  \E k \in awaiting[n] :
    /\ \A r \in disk[n].reads : r.call # k.call
    /\ disk' = [disk EXCEPT ![n].reads = @ \cup
                  {[call |-> k.call,
                    snapshot |-> getItem(disk[n].items, k.message.peerId)]}]
    /\ UNCHANGED <<now, peers, links, cache, net, awaiting, storage, handled,
                   received, relayed, statusLog, sendLog, messageQueue, queued,
                   retryRuns, retryLog, lastTick, nextId, injected, detectorLog,
                   codecLog, peerCall, trusted, ble, crypto>>

\* handleIncomingMessage from the return of storeMessage to its end;
\* stored: storeMessage resolved (else it threw).  A call that has not read
\* the list yet reads and writes it in this step.
StoreMessageReturn(n) ==
  \E k \in awaiting[n], stored \in {TRUE} \cup (IF storeFails THEN {FALSE} ELSE {}) :
    /\ awaiting' = [awaiting EXCEPT ![n] = @ \ {k}]
    /\ storage' = IF stored THEN Append1(storage, n, k.message) ELSE storage
    /\ disk' = [disk EXCEPT ![n] =
         LET pending == {r \in @.reads : r.call # k.call}
             read == {r \in @.reads : r.call = k.call}
             snapshot == IF read = {} THEN getItem(@.items, k.message.peerId)
                         ELSE (CHOOSE r \in read : TRUE).snapshot
         IN IF stored THEN [storeMessage(@, k.message, snapshot) EXCEPT !.reads = pending]
            ELSE [@ EXCEPT !.reads = pending]]
    /\ IF continuesAfterStore(stored)
       THEN /\ received' = Append1(received, n,
                                    [message |-> k.message, call |-> k.call])
            /\ IF shouldRelay(k.envelope)
               THEN \E ok \in SUBSET devicesToSend(n, k.call.senderId) :
                      RelayMessage(n, k.envelope, k.call.senderId, ok, net, k.call)
               ELSE UNCHANGED <<relayed, net>>
       ELSE UNCHANGED <<received, relayed, net>>
    /\ UNCHANGED <<now, peers, detectorLog, codecLog, peerCall, trusted, ble, crypto, links, cache, handled, statusLog, sendLog,
                   messageQueue, queued, retryRuns, retryLog, lastTick, nextId,
                   injected>>

----------------------------------------------------------------------------
(* MessageService.processRetryQueue *)

Pow2(k) == IF k <= 0 THEN 1 ELSE IF k = 1 THEN 2 ELSE IF k = 2 THEN 4
           ELSE IF k = 3 THEN 8 ELSE 16

MinOf(S) == CHOOSE x \in S : \A y \in S : x <= y

\* mutant: an exhausted entry is rescheduled instead of being failed
retryOutcome_noFail(st, id, success, t) ==
  IF success
  THEN [st EXCEPT !.mq = @ \ {id},
                  !.status = Append(@, <<id, "delivered">>)]
  ELSE [st EXCEPT !.qo[id].nextRetryTime =
                     t + RETRY_BASE_DELAY_MS * st.qo[id].attempts]

\* the branch taken once transmitToAllPeers has returned `success` for entry id;
\* t is the `now` the invocation captured at its start
retryOutcome(st, id, success, t) ==
  LET qm == st.qo[id]
  IN IF success
     THEN [st EXCEPT !.mq = @ \ {id},
                     !.status = Append(@, <<id, "delivered">>)]
     ELSE IF qm.attempts >= MAX_SEND_RETRIES
     THEN [st EXCEPT !.mq = @ \ {id},
                     !.status = Append(@, <<id, "failed">>)]
     ELSE [st EXCEPT !.qo[id].nextRetryTime =
                        t + RETRY_BASE_DELAY_MS * Pow2(qm.attempts)]

\* the for-loop over messageQueue.entries() from the entry after `last` up to
\* the next await that suspends; st.cur is the entry whose transmission is
\* then in flight (0: the loop has ended).  With no connected device
\* transmitToAllPeers returns false without any I/O and the loop goes on.
RECURSIVE retryLoop(_, _, _, _, _)
retryLoop(st, last, t, clock, noDevice) ==
  LET later == {id \in st.mq : id > last}
  IN IF later = {} THEN [st EXCEPT !.cur = 0]
     ELSE LET id == MinOf(later)
          IN IF ~(t >= st.qo[id].nextRetryTime)
             THEN retryLoop(st, id, t, clock, noDevice)
             ELSE LET st1 == [st EXCEPT
                                !.qo[id].attempts = @ + 1,
                                !.log = Append(@, [messageId |-> id,
                                                   attempt |-> st.qo[id].attempts + 1,
                                                   due |-> st.qo[id].nextRetryTime,
                                                   at |-> clock])]
                  IN IF noDevice
                     THEN retryLoop(retryOutcome(st1, id, FALSE, t), id, t,
                                    clock, noDevice)
                     ELSE [st1 EXCEPT !.cur = id]

retryState(n) ==
  [mq |-> messageQueue[n], qo |-> queued[n], status |-> statusLog[n],
   log |-> retryLog[n], cur |-> 0]

\* install the state the loop reached; when it suspended in a transmission,
\* the writes to `ok` succeed
RetrySuspend(n, st, t, runs) ==
  /\ messageQueue' = [messageQueue EXCEPT ![n] = st.mq]
  /\ queued' = [queued EXCEPT ![n] = st.qo]
  /\ statusLog' = [statusLog EXCEPT ![n] = st.status]
  /\ retryLog' = [retryLog EXCEPT ![n] = st.log]
  /\ IF st.cur = 0
     THEN /\ retryRuns' = [retryRuns EXCEPT ![n] = runs]
          /\ net' = net
     ELSE \E ok \in SUBSET devicesToSend(n, Null) :
            LET tx == transmitToAllPeers(n, Null, ok)
            IN /\ net' = net \cup Written(n, tx.sent, st.qo[st.cur].serialized)
               /\ retryRuns' = [retryRuns EXCEPT ![n] = runs \cup
                    {[now |-> t, cur |-> st.cur, success |-> tx.success]}]

\* the setInterval callback: a new processRetryQueue invocation
RetryTick(n) ==
  /\ messageQueue[n] # {}
  /\ now >= lastTick[n] + RETRY_TIMER_MS
  /\ Cardinality(retryRuns[n]) < MaxRuns
  /\ lastTick' = [lastTick EXCEPT ![n] = now]
  /\ RetrySuspend(n, retryLoop(retryState(n), 0, now, now,
                               devicesToSend(n, Null) = {}),
                  now, retryRuns[n])
  /\ UNCHANGED <<now, peers, detectorLog, codecLog, peerCall, trusted, ble, crypto, disk, links, cache, awaiting, storage, handled, received,
                 relayed, sendLog, nextId, injected>>

\* a suspended processRetryQueue invocation resumes after its transmission
RetryTransmitReturn(n) ==
  \E r \in retryRuns[n] :
    /\ RetrySuspend(n, retryLoop(retryOutcome(retryState(n), r.cur, r.success, r.now),
                                 r.cur, r.now, now, devicesToSend(n, Null) = {}),
                    r.now, retryRuns[n] \ {r})
    /\ UNCHANGED <<now, peers, detectorLog, codecLog, peerCall, trusted, ble, crypto, disk, links, cache, awaiting, storage, handled, received,
                   relayed, sendLog, lastTick, nextId, injected>>

\* the setInterval period elapses and the callback runs: the clock reaches the
\* next second and a new processRetryQueue invocation starts at that time
RetryTimer(n, maxTicks) ==
  /\ now - StartTime < maxTicks * RETRY_TIMER_MS
  /\ Cardinality(retryRuns[n]) < MaxRuns
  /\ LET t == now + RETRY_TIMER_MS
     IN /\ now' = t
        /\ lastTick' = [lastTick EXCEPT ![n] = t]
        /\ RetrySuspend(n, retryLoop(retryState(n), 0, t, t,
                                     devicesToSend(n, Null) = {}),
                        t, retryRuns[n])
  /\ UNCHANGED <<peers, detectorLog, codecLog, peerCall, trusted, ble, crypto, disk, links, cache, awaiting, storage, handled, received,
                 relayed, sendLog, nextId, injected>>

----------------------------------------------------------------------------
(* Environment: connections, inbound bytes, time *)

Connect(a, b) ==
  /\ b \in DOMAIN peers[a] /\ {a, b} \notin links
  /\ links' = links \cup {{a, b}}
  /\ UNCHANGED <<now, peers, detectorLog, codecLog, peerCall, trusted, ble, crypto, disk, cache, net, awaiting, storage, handled, received,
                 relayed, statusLog, sendLog, messageQueue, queued, retryRuns, retryLog,
                 lastTick, nextId, injected>>

Disconnect(a, b) ==
  /\ {a, b} \in links
  /\ links' = links \ {{a, b}}
  /\ UNCHANGED <<now, peers, detectorLog, codecLog, peerCall, trusted, ble, crypto, disk, cache, net, awaiting, storage, handled, received,
                 relayed, statusLog, sendLog, messageQueue, queued, retryRuns, retryLog,
                 lastTick, nextId, injected>>

\* bytes of an envelope as some device of the mesh would have written them
wire(version, messageId, sender, ttl, tag) ==
  <<version, messageId, hexToBytes(deriveSenderId(sender)),
    hexToBytes(deriveSenderId(1)), StartTime, ttl,
    NPUBBYTES, Bytes(NPUBBYTES, "n"), ABYTES, Bytes(ABYTES, tag),
    2, Bytes(2, <<performKeyExchange(1, 2), "hi">>)>>

\* bytes no serializeEnvelope produces: cut before the payload, with
\* timestamp 0, with an empty payload
MalformedWire ==
  LET w == wire(MESSAGE_ENVELOPE_VERSION, 1, 2, 1, "ok")
  IN {SubSeq(w, 1, Len(w) - 1), [w EXCEPT ![5] = 0],
      [w EXCEPT ![11] = 0, ![12] = Bytes(0, <<>>)]}

\* the inbound calls node 1 is given: <<inbound device, bytes>>
\*   from 2, sent by 2, intact        from 2, sent by 2, tag corrupted
\*   from 3, sent by 2 (relayed on)   from 3, sender not in the peer table
\*   from a device that is not in the peer table
\*   unsupported protocol version, malformed bytes
\* in each form with id 1 and ttl 0 or 1, and with the other ids intact from 2
Inbound ==
  {<<d[1], wire(MESSAGE_ENVELOPE_VERSION, 1, d[2], ttl, d[3])>> :
     d \in {<<2, 2, "ok">>, <<2, 2, "bad">>, <<3, 2, "ok">>,
            <<3, Foreign, "ok">>, <<Foreign, Foreign, "ok">>},
     ttl \in {0, 1}}
  \cup {<<2, wire(MESSAGE_ENVELOPE_VERSION, id, 2, 1, "ok")>> : id \in 2..MaxIds}
  \cup {<<2, wire(2, 1, 2, 1, "ok")>>}
  \cup {<<2, m>> : m \in MalformedWire}

Tick(maxTicks) ==
  /\ (now - StartTime) % CACHE_EXPIRATION_MS < maxTicks * RETRY_TIMER_MS
  /\ now' = now + RETRY_TIMER_MS
  /\ UNCHANGED <<peers, detectorLog, codecLog, peerCall, trusted, ble, crypto, disk, links, cache, net, awaiting, storage, handled, received,
                 relayed, statusLog, sendLog, messageQueue, queued, retryRuns, retryLog,
                 lastTick, nextId, injected>>

\* the node is idle for the cache expiration time, or for a second longer
Idle(maxIdle, extra) ==
  /\ (now - StartTime) \div CACHE_EXPIRATION_MS < maxIdle
  /\ now' = now + CACHE_EXPIRATION_MS + extra
  /\ UNCHANGED <<peers, detectorLog, codecLog, peerCall, trusted, ble, crypto, disk, links, cache, net, awaiting, storage, handled, received,
                 relayed, statusLog, sendLog, messageQueue, queued, retryRuns, retryLog,
                 lastTick, nextId, injected>>

----------------------------------------------------------------------------
(* DuplicateDetector called directly, and its restoration at startup *)

AllVarsButCache ==
  <<peers, links, net, awaiting, storage, handled, received, relayed, statusLog,
    sendLog, messageQueue, queued, retryRuns, retryLog, lastTick, nextId, injected,
    codecLog, peerCall, trusted, ble, crypto, disk>>

DetectorCall(op, messageId, snapshot) ==
  [op |-> op, id |-> messageId, at |-> now, snapshot |-> snapshot]

\* detector.markAsProcessed(messageId)
MarkAsProcessed(n, messageId, maxCalls) ==
  /\ detectorLog[n] # <<>>
  /\ Len(detectorLog[n]) < maxCalls
  /\ cache' = [cache EXCEPT ![n] = markAsProcessed(@, messageId, now)]
  /\ detectorLog' = Append1(detectorLog, n,
                             DetectorCall("markAsProcessed", messageId, <<>>))
  /\ UNCHANGED <<now, AllVarsButCache>>

\* detector.pruneCache()
PruneCache(n, maxCalls) ==
  /\ detectorLog[n] # <<>>
  /\ Len(detectorLog[n]) < maxCalls
  /\ cache' = [cache EXCEPT ![n] = pruneCache(@, now)]
  /\ detectorLog' = Append1(detectorLog, n, DetectorCall("pruneCache", Null, <<>>))
  /\ UNCHANGED <<now, AllVarsButCache>>

\* the loop of initializeApp over cachedDuplicates.entries(), in key order
RECURSIVE restoreDuplicates(_, _, _, _)
restoreDuplicates(c, cachedDuplicates, todo, t) ==
  IF todo = {} THEN c
  ELSE LET messageId == MinOf(todo)
       IN restoreDuplicates(
            IF ~isDuplicate(c, messageId) THEN markAsProcessed(c, messageId, t)
            ELSE c,
            cachedDuplicates, todo \ {messageId}, t)

\* application start: the detector is constructed empty and initializeApp
\* restores what storageService.getDuplicateCache() returned
InitializeApp(n, cachedDuplicates) ==
  /\ detectorLog[n] = <<>>
  /\ \A id \in DOMAIN cachedDuplicates : cachedDuplicates[id] <= now
  /\ cache' = [cache EXCEPT ![n] =
                  restoreDuplicates(<<>>, cachedDuplicates,
                                    DOMAIN cachedDuplicates, now)]
  /\ detectorLog' = Append1(detectorLog, n,
                             DetectorCall("initializeApp", Null, cachedDuplicates))
  /\ UNCHANGED <<now, AllVarsButCache>>

----------------------------------------------------------------------------
(* The envelope codec called directly *)

AllVarsButCodec ==
  <<now, peers, links, cache, net, awaiting, storage, handled, received, relayed,
    statusLog, sendLog, messageQueue, queued, retryRuns, retryLog, lastTick,
    nextId, injected, detectorLog, peerCall, trusted, ble, crypto, disk>>

\* deserializeEnvelope(serializeEnvelope(envelope))
SerializeDeserialize(envelope, maxCalls) ==
  /\ Len(codecLog) < maxCalls
  /\ LET data == serializeEnvelope(envelope)
     IN codecLog' = Append(codecLog,
          [op |-> "serialize", envelope |-> envelope, data |-> data,
           back |-> IF data = SerializeError THEN EnvelopeError
                    ELSE deserializeEnvelope(data)])
  /\ UNCHANGED AllVarsButCodec

\* serializeEnvelope(deserializeEnvelope(data))
DeserializeSerialize(data, maxCalls) ==
  /\ Len(codecLog) < maxCalls
  /\ LET envelope == deserializeEnvelope(data)
     IN codecLog' = Append(codecLog,
          [op |-> "deserialize", envelope |-> envelope, data |-> data,
           back |-> IF envelope = EnvelopeError THEN SerializeError
                    ELSE serializeEnvelope(envelope)])
  /\ UNCHANGED AllVarsButCodec

----------------------------------------------------------------------------
(* The peer table of AppContext and the fingerprint scan of TrustVerification *)

AllVarsButPeers ==
  <<cache, net, awaiting, storage, handled, received, relayed, statusLog, sendLog,
    messageQueue, queued, retryRuns, retryLog, lastTick, nextId, injected,
    detectorLog, codecLog, ble, crypto, disk>>

\* the call that is the last operation of node n on its peer table; seq
\* alternates so that a repeated call is a new one
PeerCall(n, op, peerId) ==
  [peerCall EXCEPT ![n] = [op |-> op, peerId |-> peerId, seq |-> 1 - @.seq]]

\* new Map()
EmptyMap == [p \in {} |-> Null]

\* the record handleDeviceDiscovered creates for a new device
newPeer(device, t) ==
  [id |-> device.id, publicKey |-> Null, sharedSecret |-> NoSecret,
   name |-> <<"name", device.id>>, connected |-> FALSE, verified |-> FALSE,
   rssi |-> IF device.rssi # 0 THEN device.rssi ELSE -100, lastSeen |-> t]

\* newPeers.set(id, peer) on a copy of the map
mapSet(map, id, peer) ==
  [p \in DOMAIN map \cup {id} |-> IF p = id THEN peer ELSE map[p]]

\* newPeers.delete(id) on a copy of the map
mapDelete(map, id) == [p \in DOMAIN map \ {id} |-> map[p]]

\* { ...existingPeer, ...updates }
spread(existingPeer, updates) ==
  [f \in DOMAIN existingPeer |->
     IF f \in DOMAIN updates THEN updates[f] ELSE existingPeer[f]]

\* the state updaters of addPeer, updatePeer and removePeer
addPeer(prevPeers, peer) == mapSet(prevPeers, peer.id, peer)

updatePeer(prevPeers, peerId, updates) ==
  IF peerId \in DOMAIN prevPeers
  THEN mapSet(prevPeers, peerId, spread(prevPeers[peerId], updates))
  ELSE prevPeers

removePeer(prevPeers, peerId) == mapDelete(prevPeers, peerId)

\* the state updater of handleDeviceDiscovered(device) at time t
handleDeviceDiscovered(prevPeers, device, t) ==
  IF device.id \in DOMAIN prevPeers
  THEN mapSet(prevPeers, device.id,
              spread(prevPeers[device.id],
                     [rssi |-> IF device.rssi # 0 THEN device.rssi
                               ELSE prevPeers[device.id].rssi,
                      lastSeen |-> t]))
  ELSE mapSet(prevPeers, device.id, newPeer(device, t))

\* mutant: a disconnect deletes the record
handleConnectionStateChange_forgets(prevPeers, deviceId, connected, t) ==
  IF deviceId \in DOMAIN prevPeers
  THEN IF connected
       THEN mapSet(prevPeers, deviceId,
                   spread(prevPeers[deviceId],
                          [connected |-> connected, lastSeen |-> t]))
       ELSE mapDelete(prevPeers, deviceId)
  ELSE prevPeers

\* the state updater of handleConnectionStateChange(deviceId, connected)
handleConnectionStateChange(prevPeers, deviceId, connected, t) ==
  IF deviceId \in DOMAIN prevPeers
  THEN mapSet(prevPeers, deviceId,
              spread(prevPeers[deviceId],
                     [connected |-> connected, lastSeen |-> t]))
  ELSE prevPeers

\* handleDeviceDiscovered(device): a new device gets a record without keys
\* and bleService.connectToPeer is started for it (its completion is the
\* connection-state event below); a known one gets its rssi and lastSeen
HandleDeviceDiscovered(n, device) ==
  /\ peers' = [peers EXCEPT ![n] = handleDeviceDiscovered(@, device, now)]
  /\ peerCall' = PeerCall(n, "handleDeviceDiscovered", device.id)
  /\ UNCHANGED <<now, links, trusted, AllVarsButPeers>>

\* BLEService connects (connectToPeer) or loses (onDisconnected,
\* disconnectFromPeer) the device, updates connectedDevices and calls
\* handleConnectionStateChange(deviceId, connected)
HandleConnectionStateChange(n, deviceId, connected) ==
  /\ connected = ({n, deviceId} \notin links)
  /\ links' = IF connected THEN links \cup {{n, deviceId}}
              ELSE links \ {{n, deviceId}}
  /\ peers' = [peers EXCEPT ![n] =
                 handleConnectionStateChange(@, deviceId, connected, now)]
  /\ peerCall' = PeerCall(n, IF connected THEN "connected" ELSE "disconnected",
                          deviceId)
  /\ UNCHANGED <<now, trusted, AllVarsButPeers>>

\* addPeer(peer)
AddPeer(n, peer) ==
  /\ peers' = [peers EXCEPT ![n] = addPeer(@, peer)]
  /\ peerCall' = PeerCall(n, "addPeer", peer.id)
  /\ UNCHANGED <<now, links, trusted, AllVarsButPeers>>

\* updatePeer(peerId, updates)
UpdatePeer(n, peerId, updates) ==
  /\ peers' = [peers EXCEPT ![n] = updatePeer(@, peerId, updates)]
  /\ peerCall' = PeerCall(n, "updatePeer", peerId)
  /\ UNCHANGED <<now, links, trusted, AllVarsButPeers>>

\* removePeer(peerId)
RemovePeer(n, peerId) ==
  /\ peers' = [peers EXCEPT ![n] = removePeer(@, peerId)]
  /\ peerCall' = PeerCall(n, "removePeer", peerId)
  /\ UNCHANGED <<now, links, trusted, AllVarsButPeers>>

\* generateTrustFingerprint: the first 32 hex characters, in lower case, of
\* the hash of a public key
generateTrustFingerprint(publicKey) == <<"fp", publicKey>>

\* A scanned string is the fingerprint of a key in one of four spellings:
\* lower case ("fp"), upper case ("FP"), lower case between blanks (" fp "),
\* or a text that is not 32 hex characters ("url").
trim(string) == IF string[1] = " fp " THEN <<"fp", string[2]>> ELSE string
toLowerCase(string) == IF string[1] = "FP" THEN <<"fp", string[2]>> ELSE string

\* /^[0-9a-fA-F]{32}$/.test(string)
isFingerprintFormat(string) == string[1] \in {"fp", "FP"}

\* What a call returns: a value, or a promise that resolves to the value.
Returned(value) == [promise |-> FALSE, value |-> value]
Promise(value) == [promise |-> TRUE, value |-> value]

\* the value as the condition of an if: a promise is an object
truthy(result) == result.promise \/ result.value

\* CryptoService.verifyFingerprint
verifyFingerprint(scannedFingerprint, peerPublicKey) ==
  Returned(trim(toLowerCase(scannedFingerprint))
             = trim(toLowerCase(generateTrustFingerprint(peerPublicKey))))

\* ExpoCryptoService.verifyFingerprint, an async method
ExpoCryptoService_verifyFingerprint(scannedFingerprint, peerPublicKey) ==
  Promise(verifyFingerprint(scannedFingerprint, peerPublicKey).value)

\* the crypto service AppContext constructs and hands to the components
cryptoService == "ExpoCryptoService"

\* handleBarCodeRead(event) of the TrustVerification modal opened for peerId,
\* with the component state `scanning`; storeTrustedPeer succeeds or throws
HandleBarCodeRead(n, peerId, scanning, event) ==
  LET scannedFingerprint == trim(event.data)
      proceeds ==
        /\ ~scanning /\ peerId \in DOMAIN peers[n]
        /\ event.type = "qr"
        /\ isFingerprintFormat(scannedFingerprint)
        /\ peers[n][peerId].publicKey # Null
      isVerified ==
        IF cryptoService = "ExpoCryptoService"
        THEN ExpoCryptoService_verifyFingerprint(scannedFingerprint,
                                                 peers[n][peerId].publicKey)
        ELSE verifyFingerprint(scannedFingerprint, peers[n][peerId].publicKey)
  IN /\ peerCall' = [PeerCall(n, "handleBarCodeRead", peerId) EXCEPT
                       ![n] = [op |-> @.op, peerId |-> @.peerId, seq |-> @.seq,
                               scanning |-> scanning, event |-> event]]
     /\ IF proceeds /\ truthy(isVerified)
        THEN /\ peers' = [peers EXCEPT ![n] =
                            updatePeer(@, peerId, [verified |-> TRUE])]
             /\ \/ trusted' = [trusted EXCEPT ![n] = @ \cup {peerId}]
                \/ UNCHANGED trusted
        ELSE UNCHANGED <<peers, trusted>>
     /\ UNCHANGED <<now, links, AllVarsButPeers>>

----------------------------------------------------------------------------
(* BLEService: connection attempts, their timeouts, disconnection and       *)
(* reconnection, and the callbacks AppContext registers                      *)

AllVarsButBle ==
  <<cache, net, awaiting, storage, handled, received, relayed, statusLog, sendLog,
    messageQueue, queued, retryRuns, retryLog, lastTick, nextId, injected,
    detectorLog, codecLog, trusted, crypto, disk>>

\* BLEService after construction.  attempts: the connectToPeer calls;
\* timers: the pending setTimeout callbacks; listening: the devices whose
\* connection has a disconnection listener; cancelled: the devices whose
\* connection cancelDeviceConnection ended, the event not yet delivered;
\* userDisconnected: the devices last disconnected by disconnectFromPeer
InitBle ==
  [attempts |-> <<>>, timers |-> {}, nextTimer |-> 1,
   connectionTimeouts |-> EmptyMap, reconnectTimeouts |-> EmptyMap,
   listening |-> {}, cancelled |-> {}, userDisconnected |-> {}]

\* clearTimeout(map.get(deviceId)); map.delete(deviceId)
clearTimer(timers, map, deviceId) ==
  IF deviceId \in DOMAIN map
  THEN {timer \in timers : timer.id # map[deviceId]}
  ELSE timers

\* connectToPeer(deviceId) up to its await: the timeout is set and stored
\* under the device id, and manager.connectToDevice is started
connectToPeer(b, deviceId, by, t) ==
  [b EXCEPT
     !.attempts = Append(@, [device |-> deviceId, startedAt |-> t, by |-> by,
                             state |-> "racing", connect |-> "pending",
                             doneAt |-> 0]),
     !.timers = @ \cup {[id |-> b.nextTimer, kind |-> "connection",
                         device |-> deviceId, attempt |-> Len(b.attempts) + 1,
                         fireAt |-> t + CONNECTION_TIMEOUT_MS]},
     !.connectionTimeouts = mapSet(@, deviceId, b.nextTimer),
     !.nextTimer = @ + 1]

\* the catch block of connectToPeer, and its first lines after the race
clearConnectionTimeout(b, deviceId) ==
  [b EXCEPT !.timers = clearTimer(@, b.connectionTimeouts, deviceId),
            !.connectionTimeouts = mapDelete(@, deviceId)]

\* connectionStateChangeCallback(deviceId, connected) as AppContext set it
ConnectionStateChangeCallback(n, deviceId, connected) ==
  /\ peers' = [peers EXCEPT ![n] =
                 handleConnectionStateChange(@, deviceId, connected, now)]
  /\ peerCall' = PeerCall(n, IF connected THEN "connected" ELSE "disconnected",
                          deviceId)

\* connectToPeer(deviceId) called through the context
ConnectToPeer(n, deviceId, maxAttempts) ==
  /\ Len(ble[n].attempts) < maxAttempts
  /\ ble' = [ble EXCEPT ![n] =
       [connectToPeer(@, deviceId, "client", now) EXCEPT
          !.userDisconnected = @ \ {deviceId}]]
  /\ UNCHANGED <<now, peers, peerCall, links, AllVarsButBle>>

\* a scan result: performScan's callback calls handleDeviceDiscovered, which
\* starts connectToPeer for a device not yet in the peer table
ScanResult(n, device, maxAttempts) ==
  /\ device.id \in DOMAIN peers[n] \/ Len(ble[n].attempts) < maxAttempts
  /\ peers' = [peers EXCEPT ![n] = handleDeviceDiscovered(@, device, now)]
  /\ peerCall' = PeerCall(n, "handleDeviceDiscovered", device.id)
  /\ ble' = IF device.id \in DOMAIN peers[n] THEN ble
            ELSE [ble EXCEPT ![n] = connectToPeer(@, device.id, "discovery", now)]
  /\ UNCHANGED <<now, links, AllVarsButBle>>

\* manager.connectToDevice of attempt a resolves; if the race is still open
\* the attempt goes on: the timeout stored under the device id is cleared,
\* the services are discovered (or that fails), the listener is set up, the
\* device is stored and the callback called
ConnectResolves(n, a, discovered) ==
  LET attempt == ble[n].attempts[a]
      d == attempt.device
  IN /\ attempt.connect = "pending"
     /\ IF attempt.state # "racing"
        THEN /\ ble' = [ble EXCEPT ![n].attempts[a].connect = "resolved",
                                   ![n].attempts[a].doneAt = now]
             /\ UNCHANGED <<peers, peerCall, links>>
        ELSE IF ~discovered
        THEN /\ ble' = [ble EXCEPT ![n] =
                  [clearConnectionTimeout(@, d) EXCEPT
                     !.attempts[a].connect = "resolved",
                     !.attempts[a].state = "failed",
                     !.attempts[a].doneAt = now]]
             /\ UNCHANGED <<peers, peerCall, links>>
        ELSE /\ ble' = [ble EXCEPT ![n] =
                  [clearConnectionTimeout(@, d) EXCEPT
                     !.attempts[a].connect = "resolved",
                     !.attempts[a].state = "connected",
                     !.attempts[a].doneAt = now,
                     !.listening = @ \cup {d}]]
             /\ links' = links \cup {{n, d}}
             /\ ConnectionStateChangeCallback(n, d, TRUE)
     /\ UNCHANGED <<now, AllVarsButBle>>

\* manager.connectToDevice of attempt a rejects
ConnectRejects(n, a) ==
  LET attempt == ble[n].attempts[a]
  IN /\ attempt.connect = "pending"
     /\ ble' = [ble EXCEPT ![n] =
          IF attempt.state = "racing"
          THEN [clearConnectionTimeout(@, attempt.device) EXCEPT
                  !.attempts[a].connect = "rejected",
                  !.attempts[a].state = "failed",
                  !.attempts[a].doneAt = now]
          ELSE [@ EXCEPT !.attempts[a].connect = "rejected"]]
     /\ UNCHANGED <<now, peers, peerCall, links, AllVarsButBle>>

\* a timer is due and its callback runs.  A connection timeout rejects the
\* race of its attempt, whose catch block clears the timeout stored under the
\* device id; a reconnect timer calls connectToPeer and deletes its map entry
TimerFires(n, timer, maxAttempts) ==
  /\ timer \in ble[n].timers /\ timer.fireAt <= now
  /\ IF timer.kind = "connection"
     THEN ble' = [ble EXCEPT ![n] =
            LET fired == [@ EXCEPT !.timers = @ \ {timer}]
            IN IF @.attempts[timer.attempt].state = "racing"
               THEN [clearConnectionTimeout(fired, timer.device) EXCEPT
                       !.attempts[timer.attempt].state = "timedOut",
                       !.attempts[timer.attempt].doneAt = now]
               ELSE fired]
     ELSE /\ Len(ble[n].attempts) < maxAttempts
          /\ ble' = [ble EXCEPT ![n] =
               [connectToPeer([@ EXCEPT !.timers = @ \ {timer}],
                              timer.device, "reconnect", now) EXCEPT
                  !.reconnectTimeouts = mapDelete(@, timer.device)]]
  /\ UNCHANGED <<now, peers, peerCall, links, AllVarsButBle>>

\* the disconnection listener of a connection runs: the device is deleted
\* from connectedDevices, the callback is called and a reconnect is scheduled
Disconnected(n, deviceId) ==
  /\ deviceId \in ble[n].listening
  /\ links' = links \ {{n, deviceId}}
  /\ ConnectionStateChangeCallback(n, deviceId, FALSE)
  /\ ble' = [ble EXCEPT ![n] =
       [@ EXCEPT
          !.listening = @ \ {deviceId},
          !.cancelled = @ \ {deviceId},
          !.timers = @ \cup {[id |-> ble[n].nextTimer, kind |-> "reconnect",
                              device |-> deviceId, attempt |-> 0,
                              fireAt |-> now + RECONNECT_DELAY_MS]},
          !.reconnectTimeouts = mapSet(@, deviceId, ble[n].nextTimer),
          !.nextTimer = @ + 1]]
  /\ UNCHANGED <<now, AllVarsButBle>>

\* disconnectFromPeer(deviceId) for a connected device: the pending
\* reconnect timer is cleared, then cancelDeviceConnection ends the
\* connection (or throws), the device is deleted and the callback called;
\* the disconnection event of the cancelled connection is delivered later
DisconnectFromPeer(n, deviceId, cancels) ==
  /\ {n, deviceId} \in links
  /\ LET cleared == [ble[n] EXCEPT
                       !.timers = clearTimer(@, ble[n].reconnectTimeouts, deviceId),
                       !.reconnectTimeouts = mapDelete(@, deviceId)]
     IN IF cancels
        THEN /\ ble' = [ble EXCEPT ![n] =
                  [cleared EXCEPT
                     !.cancelled = @ \cup ({deviceId} \cap cleared.listening),
                     !.userDisconnected = @ \cup {deviceId}]]
             /\ links' = links \ {{n, deviceId}}
             /\ ConnectionStateChangeCallback(n, deviceId, FALSE)
        ELSE /\ ble' = [ble EXCEPT ![n] = cleared]
             /\ UNCHANGED <<peers, peerCall, links>>
  /\ UNCHANGED <<now, AllVarsButBle>>

\* a second passes; a due timer runs before the clock goes on
Advance(maxTicks) ==
  /\ now < StartTime + maxTicks * RETRY_TIMER_MS
  /\ \A n \in Node : \A timer \in ble[n].timers : timer.fireAt > now
  /\ now' = now + RETRY_TIMER_MS
  /\ UNCHANGED <<peers, peerCall, links, ble, AllVarsButBle>>

----------------------------------------------------------------------------
(* The identity key pair: CryptoService and ExpoCryptoService initialize,    *)
(* getPublicKey and performKeyExchange; StorageService key pair storage      *)

AllVarsButCrypto ==
  <<now, peers, links, cache, net, awaiting, storage, handled, received, relayed,
    statusLog, sendLog, messageQueue, queued, retryRuns, retryLog, lastTick,
    nextId, injected, detectorLog, codecLog, peerCall, trusted, ble, disk>>

\* A key is a number of 1..MaxKey; 0 stands for null.  X25519 is modelled in
\* the multiplicative group modulo 11 with base point 2.
RECURSIVE power(_, _)
power(base, exponent) ==
  IF exponent = 0 THEN 1 ELSE (base * power(base, exponent - 1)) % 11

\* sodium.crypto_scalarmult(privateKey, publicKey)
crypto_scalarmult(privateKey, publicKey) == power(publicKey, privateKey)

\* sodium.crypto_box_keypair() with the random private key
crypto_box_keypair(random) ==
  [publicKey |-> power(2, random), privateKey |-> random]

\* a ^ b on the bytes of two keys
RECURSIVE xor(_, _)
xor(a, b) ==
  IF a = 0 THEN b
  ELSE IF b = 0 THEN a
  ELSE (((a % 2) + (b % 2)) % 2) + 2 * xor(a \div 2, b \div 2)

\* ExpoCryptoService.generateKeyPair: two independent random byte strings
ExpoCryptoService_generateKeyPair(randomPrivate, randomPublic) ==
  [publicKey |-> randomPublic, privateKey |-> randomPrivate]

\* storeKeyPair writes the keys in base64 and getKeyPair reads them back
uint8ArrayToBase64(key) == <<"base64", key>>
base64ToUint8Array(base64) == base64[2]
NoKeyPair == [publicKey |-> <<"base64", 0>>, privateKey |-> <<"base64", 0>>]

storeKeyPair(publicKey, privateKey) ==
  [publicKey |-> uint8ArrayToBase64(publicKey),
   privateKey |-> uint8ArrayToBase64(privateKey)]

\* mutant: the stored public key is read into both fields
getKeyPair_publicTwice(stored) ==
  [publicKey |-> base64ToUint8Array(stored.publicKey),
   privateKey |-> base64ToUint8Array(stored.publicKey)]

getKeyPair(stored) ==
  [publicKey |-> base64ToUint8Array(stored.publicKey),
   privateKey |-> base64ToUint8Array(stored.privateKey)]

\* performKeyExchange(peerPublicKey) of an initialized service
performKeyExchangeOf(service, publicKey, privateKey, peerPublicKey) ==
  IF service = "CryptoService" THEN crypto_scalarmult(privateKey, peerPublicKey)
  ELSE xor(privateKey, peerPublicKey)

\* the service instance of a device after construction, its key store, the
\* initialize calls in flight (what getKeyPair returned to each), and the
\* history: the first key pair generated, whether one was generated while
\* one was stored, whether two calls overlapped, whether a store failed, the
\* secrets derived
NewInstance == [publicKey |-> 0, privateKey |-> 0, initialized |-> FALSE]

InitCrypto(service) ==
  [service |-> service,
   device |-> [d \in {1, 2} |->
     [stored |-> NoKeyPair, instance |-> NewInstance, calls |-> <<>>,
      started |-> 0, first |-> NoKeyPair, regenerated |-> FALSE,
      overlapped |-> FALSE, storeFailed |-> FALSE, restarted |-> FALSE,
      secrets |-> EmptyMap]]]

\* initialize() up to the return of storageService.getKeyPair()
InitializeLoad(d, maxCalls) ==
  /\ crypto.device[d].started < maxCalls
  /\ crypto' = [crypto EXCEPT
       !.device[d].calls = Append(@, crypto.device[d].stored),
       !.device[d].started = @ + 1,
       !.device[d].overlapped = @ \/ crypto.device[d].calls # <<>>]
  /\ UNCHANGED AllVarsButCrypto

\* the rest of the first initialize() call in flight: the stored pair is
\* taken, or a pair is generated and stored (or storing it throws)
InitializeFinish(d, randomPrivate, randomPublic, stores) ==
  /\ crypto.device[d].calls # <<>>
  /\ LET storedKeyPair == Head(crypto.device[d].calls)
         keyPair == IF crypto.service = "CryptoService"
                    THEN crypto_box_keypair(randomPrivate)
                    ELSE ExpoCryptoService_generateKeyPair(randomPrivate,
                                                           randomPublic)
     IN crypto' =
          IF storedKeyPair # NoKeyPair
          THEN [crypto EXCEPT
                  !.device[d].calls = Tail(@),
                  !.device[d].instance =
                    [publicKey |-> getKeyPair(storedKeyPair).publicKey,
                     privateKey |-> getKeyPair(storedKeyPair).privateKey,
                     initialized |-> TRUE]]
          ELSE [crypto EXCEPT
                  !.device[d].calls = Tail(@),
                  !.device[d].first =
                    IF @ = NoKeyPair
                    THEN storeKeyPair(keyPair.publicKey, keyPair.privateKey)
                    ELSE @,
                  !.device[d].regenerated =
                    @ \/ crypto.device[d].stored # NoKeyPair,
                  !.device[d].instance =
                    [publicKey |-> keyPair.publicKey,
                     privateKey |-> keyPair.privateKey,
                     initialized |-> @.initialized \/ stores],
                  !.device[d].stored =
                    IF stores
                    THEN storeKeyPair(keyPair.publicKey, keyPair.privateKey)
                    ELSE @,
                  !.device[d].storeFailed = @ \/ ~stores]
  /\ UNCHANGED AllVarsButCrypto

\* the application restarts: a new service instance over the same key store
Restart(d) ==
  /\ crypto.device[d].instance # NewInstance \/ crypto.device[d].calls # <<>>
  /\ crypto' = [crypto EXCEPT !.device[d].instance = NewInstance,
                              !.device[d].calls = <<>>,
                              !.device[d].restarted = TRUE,
                              !.device[d].secrets = EmptyMap]
  /\ UNCHANGED AllVarsButCrypto

\* device a derives the secret it shares with device b from b's public key
KeyExchange(a, b) ==
  /\ a # b
  /\ crypto.device[a].instance.initialized
  /\ crypto.device[b].instance.initialized
  /\ crypto' = [crypto EXCEPT !.device[a].secrets =
       mapSet(@, b,
         [publicKey |-> crypto.device[a].instance.publicKey,
          peerPublicKey |-> crypto.device[b].instance.publicKey,
          sharedSecret |->
            performKeyExchangeOf(crypto.service,
                                 crypto.device[a].instance.publicKey,
                                 crypto.device[a].instance.privateKey,
                                 crypto.device[b].instance.publicKey)])]
  /\ UNCHANGED AllVarsButCrypto

----------------------------------------------------------------------------
(* Specifications *)

Keyed(n, p) == [publicKey |-> p, sharedSecret |-> performKeyExchange(n, p)]
Unkeyed == [publicKey |-> Null, sharedSecret |-> NoSecret]

InitServices(N) ==
  /\ now = StartTime
  /\ cache = [n \in N |-> <<>>]
  /\ net = {}
  /\ awaiting = [n \in N |-> {}]
  /\ storage = [n \in N |-> <<>>]
  /\ handled = [n \in N |-> <<>>]
  /\ received = [n \in N |-> <<>>]
  /\ relayed = [n \in N |-> <<>>]
  /\ statusLog = [n \in N |-> <<>>]
  /\ sendLog = [n \in N |-> <<>>]
  /\ messageQueue = [n \in N |-> {}]
  /\ queued = [n \in N |-> <<>>]
  /\ retryRuns = [n \in N |-> {}]
  /\ retryLog = [n \in N |-> <<>>]
  /\ lastTick = [n \in N |-> 0]
  /\ nextId = 1
  /\ injected = 0
  /\ detectorLog = [n \in N |-> <<>>]
  /\ codecLog = <<>>
  /\ peerCall = [n \in N |-> [op |-> "none", peerId |-> Null, seq |-> 0]]
  /\ trusted = [n \in N |-> {}]
  /\ ble = [n \in N |-> InitBle]
  /\ disk = [n \in N |-> InitDisk]

InitNode(N) ==
  /\ InitServices(N)
  /\ crypto = InitCrypto("CryptoService")

\* Receive path of one node.  Node 1 has exchanged keys with device 2 and has
\* only discovered device 3; the devices connect, disconnect and write
\* arbitrary envelopes to it.
Init ==
  /\ peers = [n \in {1} |-> [p \in {2, 3} |-> IF p = 2 THEN Keyed(n, p) ELSE Unkeyed]]
  /\ links = {}
  /\ InitNode({1})

Next ==
  \/ \E n \in Node, d \in Inbound : OnDataReceived(n, d[1], d[2], MaxInbound)
  \/ \E n \in Node : StoreMessageReturn(n)
  \/ \E a \in Node, b \in {2, 3} : Connect(a, b)
  \/ \E a \in Node, b \in {2, 3} : Disconnect(a, b)

Spec == Init /\ [][Next]_vars

\* Receive path of one node over the lifetime of duplicate-cache entries: the
\* same node with both devices connected, given copies of envelopes while
\* the clock passes the cache expiration time.
CacheInbound ==
  {<<d[1], wire(MESSAGE_ENVELOPE_VERSION, 1, 2, d[3], d[2])>> :
     d \in {<<2, "ok", 0>>, <<2, "ok", 1>>, <<3, "ok", 1>>, <<2, "bad", 1>>}}
  \cup {<<2, wire(MESSAGE_ENVELOPE_VERSION, id, 2, 1, "ok")>> : id \in 2..MaxIds}

InitCache ==
  /\ peers = [n \in {1} |-> [p \in {2, 3} |-> IF p = 2 THEN Keyed(n, p) ELSE Unkeyed]]
  /\ links = {{1, 2}, {1, 3}}
  /\ InitNode({1})

NextCache ==
  \/ \E n \in Node, d \in CacheInbound : OnDataReceived(n, d[1], d[2], MaxCalls)
  \/ \E n \in Node : StoreMessageReturn(n)
  \/ \E extra \in {0, RETRY_TIMER_MS} : Idle(MaxIdle, extra)

SpecCache == InitCache /\ [][NextCache]_vars

\* Send path and retry queue of one node with two keyed peers.
InitRetry ==
  /\ peers = [n \in {1} |-> [p \in {2, 3} |-> Keyed(n, p)]]
  /\ links = {}
  /\ InitNode({1})

NextRetry ==
  \/ \E n \in Node, r \in {2, 3}, text \in Texts : SendMessage(n, r, text, RetryIds)
  \/ \E n \in Node : RetryTick(n)
  \/ \E n \in Node : RetryTransmitReturn(n)
  \/ \E a \in Node, b \in {2, 3} : Connect(a, b)
  \/ \E a \in Node, b \in {2, 3} : Disconnect(a, b)
  \/ Tick(RetryTicks)

SpecRetry == InitRetry /\ [][NextRetry]_vars

\* Progress of the retry queue: the messages are sent at construction time,
\* then the retry timer fires every second and every transmission it starts
\* returns, while the two peers connect and disconnect.
NextLive ==
  \/ now = StartTime /\ \E n \in Node, r \in {2, 3}, text \in Texts :
                          SendMessage(n, r, text, RetryIds)
  \/ \E n \in Node : RetryTimer(n, LiveTicks)
  \/ \E n \in Node : RetryTransmitReturn(n)
  \/ \E a \in Node, b \in {2, 3} : Connect(a, b)
  \/ \E a \in Node, b \in {2, 3} : Disconnect(a, b)

SpecLive ==
  /\ InitRetry /\ [][NextLive]_vars
  /\ WF_vars(\E n \in Node : RetryTimer(n, LiveTicks))
  /\ WF_vars(\E n \in Node : RetryTransmitReturn(n))

\* Send path of one node: sendMessage is called with valid and invalid
\* arguments (recipient 2 has exchanged keys, 3 has not, Foreign is not in the
\* peer table) while the two devices connect and disconnect.
NextSend ==
  \/ \E n \in Node, r \in {2, 3, Foreign}, text \in SendTexts :
       SendMessage(n, r, text, MaxSends)
  \/ \E a \in Node, b \in {2, 3} : Connect(a, b)
  \/ \E a \in Node, b \in {2, 3} : Disconnect(a, b)

SpecSend == Init /\ [][NextSend]_vars

\* The duplicate detector of one node over the lifetime of its entries: the
\* application starts at some time with a persisted cache, then ids are marked
\* and the cache is pruned while the clock passes the cache expiration time.
PersistedCaches ==
  {<<>>,
   [id \in {1} |-> StartTime],
   [id \in {1, 2} |-> IF id = 1 THEN StartTime ELSE StartTime + CACHE_EXPIRATION_MS]}

NextDetector ==
  \/ \E n \in Node, c \in PersistedCaches : InitializeApp(n, c)
  \/ \E n \in Node, id \in 1..DetectorIds : MarkAsProcessed(n, id, MaxDetectorCalls)
  \/ \E n \in Node : PruneCache(n, MaxDetectorCalls)
  \/ \E extra \in {-RETRY_TIMER_MS, 0, RETRY_TIMER_MS} : Idle(MaxIdle, extra)

SpecDetector == InitCache /\ [][NextDetector]_vars

\* A burst of distinct message ids: after the start with nothing persisted,
\* ids 1, 2, 3, ... are marked one after the other at the same clock reading.
NextBurst ==
  \/ \E n \in Node : InitializeApp(n, <<>>)
  \/ \E n \in Node : MarkAsProcessed(n, Len(detectorLog[n]), BurstCalls)

SpecBurst == InitCache /\ [][NextBurst]_vars

\* The peer table of one node.  Devices 2 and 3 are discovered, connect and
\* disconnect; device 2 is bound to its own key or to the key of device 3 (a
\* man in the middle), and the QR code of device 2 is scanned.
InitPeers ==
  /\ peers = [n \in {1} |-> EmptyMap]
  /\ links = {}
  /\ InitNode({1})

Devices == {[id |-> 2, rssi |-> -60], [id |-> 3, rssi |-> 0]}

\* a peer record as built after a key exchange
KeyExchanged(n, id, publicKey, t) ==
  spread(newPeer([id |-> id, rssi |-> -60], t),
         [publicKey |-> publicKey,
          sharedSecret |-> performKeyExchange(n, publicKey)])

PeerUpdates(n) ==
  {[verified |-> TRUE], [publicKey |-> 2],
   [publicKey |-> 2, sharedSecret |-> performKeyExchange(n, 2)],
   [publicKey |-> 3, sharedSecret |-> performKeyExchange(n, 3)]}

ScanEvents ==
  {[type |-> "qr", data |-> <<form, 2>>] : form \in {"fp", "FP", " fp ", "url"}}
    \cup {[type |-> "ean13", data |-> <<"fp", 2>>]}

\* the modal is open for device 2 and a code is scanned, also while an earlier
\* scan is being handled; or it is open for device 3, which has no key
Scans ==
  {[peerId |-> 2, scanning |-> FALSE, event |-> event] : event \in ScanEvents}
    \cup {[peerId |-> p, scanning |-> p = 2,
           event |-> [type |-> "qr", data |-> <<"fp", 2>>]] : p \in {2, 3}}

NextPeers ==
  \/ \E n \in Node, device \in Devices : HandleDeviceDiscovered(n, device)
  \/ \E n \in Node, d \in {2, 3}, connected \in BOOLEAN :
       HandleConnectionStateChange(n, d, connected)
  \/ \E n \in Node, key \in {2, 3} : AddPeer(n, KeyExchanged(n, 2, key, now))
  \/ \E n \in Node : \E updates \in PeerUpdates(n) : UpdatePeer(n, 2, updates)
  \/ \E n \in Node, p \in {2, 3} : RemovePeer(n, p)
  \/ \E n \in Node, scan \in Scans :
       HandleBarCodeRead(n, scan.peerId, scan.scanning, scan.event)
  \/ Tick(PeerTicks)

SpecPeers == InitPeers /\ [][NextPeers]_vars

\* The connections of one node to devices 2 and 3: scans discover them, the
\* user connects to device 2 and disconnects from it, the radio completes or
\* fails the attempts and drops connections, while the timers run.
NextBle ==
  \/ \E n \in Node, device \in Devices : ScanResult(n, device, MaxAttempts)
  \/ \E n \in Node : ConnectToPeer(n, 2, MaxAttempts)
  \/ \E n \in Node : \E a \in DOMAIN ble[n].attempts, discovered \in BOOLEAN :
       ConnectResolves(n, a, discovered)
  \/ \E n \in Node : \E a \in DOMAIN ble[n].attempts : ConnectRejects(n, a)
  \/ \E n \in Node : \E timer \in ble[n].timers : TimerFires(n, timer, MaxAttempts)
  \/ \E n \in Node, d \in {2, 3} : Disconnected(n, d)
  \/ \E n \in Node, cancels \in BOOLEAN : DisconnectFromPeer(n, 2, cancels)
  \/ Advance(BleTicks)

SpecBle == InitPeers /\ [][NextBle]_vars

\* The identities of two devices that run the same crypto service: device 1
\* is initialized, restarted and initialized again, device 2 is initialized
\* once, and the two agree on keys.
InitKeys ==
  /\ peers = [n \in {1} |-> EmptyMap]
  /\ links = {}
  /\ InitServices({1})
  /\ crypto \in {InitCrypto(service) :
                   service \in {"CryptoService", "ExpoCryptoService"}}

NextKeys ==
  \/ \E d \in {1, 2} : InitializeLoad(d, IF d = 1 THEN MaxInitCalls ELSE 1)
  \/ \E d \in {1, 2}, randomPrivate \in 1..MaxKey, stores \in BOOLEAN :
       \E randomPublic \in IF crypto.service = "CryptoService" THEN {0}
                           ELSE 1..MaxKey :
         InitializeFinish(d, randomPrivate, randomPublic, stores)
  \/ \E d \in {1, 2} : Restart(d)
  \/ \E a, b \in {1, 2} : KeyExchange(a, b)

SpecKeys == InitKeys /\ [][NextKeys]_vars

\* The codec as a pair of functions.  The envelopes: the one node 2 sends to
\* node 1 with every ttl of a byte and just outside, with every field in turn
\* invalid or spelled otherwise, with a timestamp from 2^53 on, and with every
\* combination of nonce, tag and payload lengths at and around their limits.
BaseEnvelope ==
  [version |-> MESSAGE_ENVELOPE_VERSION, messageId |-> 1,
   senderId |-> deriveSenderId(2), recipientId |-> deriveSenderId(1),
   timestamp |-> StartTime, ttl |-> INITIAL_MESSAGE_TTL,
   encryptedPayload |-> Bytes(2, <<performKeyExchange(1, 2), "hi">>),
   nonce |-> Bytes(NPUBBYTES, "n"), tag |-> Bytes(ABYTES, "ok")]

\* the largest envelope deserializeEnvelope accepts, on its last hop
LargestEnvelope ==
  [BaseEnvelope EXCEPT !.ttl = 255, !.timestamp = Two53 + 2,
                       !.nonce = Bytes(MAX_NONCE_LENGTH, "n"),
                       !.tag = Bytes(MAX_TAG_LENGTH, "ok"),
                       !.encryptedPayload = Bytes(MAX_PAYLOAD_LENGTH, "p")]

CodecEnvelopes ==
  {LargestEnvelope}
  \cup {[BaseEnvelope EXCEPT !.ttl = t] : t \in -1..256}
  \cup {[BaseEnvelope EXCEPT !.version = v] : v \in {0, 2}}
  \cup {[BaseEnvelope EXCEPT !.messageId = id] : id \in {0, 2, otherSpelling(1)}}
  \cup {[BaseEnvelope EXCEPT !.senderId = id] :
          id \in {<<"SID", 2>>, <<"dev", 2>>, <<"hex", 2>>, <<"sid">>}}
  \cup {[BaseEnvelope EXCEPT !.recipientId = id] :
          id \in {<<"SID", 1>>, <<"dev", 3>>, <<"sid">>}}
  \cup {[BaseEnvelope EXCEPT !.timestamp = t] : t \in {0, 1, Two53, Two53 + 2}}
  \cup {[BaseEnvelope EXCEPT !.nonce = Bytes(n, "n"), !.tag = Bytes(t, "ok"),
                             !.encryptedPayload = Bytes(p, "p")] :
          n \in {0, 1, NPUBBYTES, MAX_NONCE_LENGTH, MAX_NONCE_LENGTH + 1},
          t \in {0, ABYTES, MAX_TAG_LENGTH, MAX_TAG_LENGTH + 1},
          p \in {0, 1, MAX_PAYLOAD_LENGTH, MAX_PAYLOAD_LENGTH + 1}}

\* The byte sequences: what serializeEnvelope makes of those envelopes (with
\* ttl 0, 10 or 255), and
\* the bytes of the base envelope cut after each field, followed by further
\* bytes, with a payload length field that says more or less than follows,
\* with a nonce length that points past the end, with another version, and
\* with timestamps from 2^53 on.
CodecBytes ==
  LET w == serializeEnvelope(BaseEnvelope)
  IN ({serializeEnvelope(e) :
         e \in {c \in CodecEnvelopes : c.ttl \in {0, INITIAL_MESSAGE_TTL, 255}}}
      \ {SerializeError})
     \cup {SubSeq(w, 1, k) : k \in 0..(Len(w) - 1)}
     \cup {w \o <<Bytes(k, "x")>> : k \in {1, 2}}
     \cup {[w EXCEPT ![11] = k] : k \in {0, 1, 3, MAX_PAYLOAD_LENGTH + 1}}
     \cup {[SubSeq(w, 1, 8) EXCEPT ![7] = NPUBBYTES + 1]}
     \cup {[w EXCEPT ![1] = v] : v \in {0, 2, 255}}
     \cup {[w EXCEPT ![5] = t] : t \in {0} \cup (Two53 - 1)..(Two53 + 4)}

NextCodec ==
  \/ \E e \in CodecEnvelopes : SerializeDeserialize(e, MaxCodecCalls)
  \/ \E x \in CodecBytes : DeserializeSerialize(x, MaxCodecCalls)

SpecCodec == InitCache /\ [][NextCodec]_vars

\* Linear chain 1 - 2 - ... - ChainNodes: neighbours are connected and have
\* exchanged keys, and so have the two ends.
ChainKeyed(n, p) == p = n + 1 \/ n = p + 1 \/ {n, p} = {1, ChainNodes}

InitChain ==
  /\ peers = [n \in 1..ChainNodes |->
               [p \in {q \in 1..ChainNodes : ChainKeyed(n, q)} |-> Keyed(n, p)]]
  /\ links = {{n, n + 1} : n \in 1..(ChainNodes - 1)}
  /\ InitNode(1..ChainNodes)

NextChain ==
  \/ \E n \in Node, text \in Texts : \E r \in DOMAIN peers[n] :
       SendMessage(n, r, text, ChainIds)
  \/ \E n \in Node : Deliver(n)
  \/ \E n \in Node : StoreMessageReturn(n)
  \/ \E n \in Node : RetryTick(n)
  \/ \E n \in Node : RetryTransmitReturn(n)
  \/ Tick(ChainTicks)

SpecChain == InitChain /\ [][NextChain]_vars

\* The message store of one node: envelopes of device 2 arrive and their
\* handlers read and write the message list of the peer in separate steps,
\* while the node sends messages to the same peer.
NextStore ==
  \/ \E n \in Node, d \in Inbound : OnDataReceived(n, d[1], d[2], MaxInbound)
  \/ \E n \in Node : StoreMessageGetItem(n)
  \/ \E n \in Node : StoreMessageReturn(n)
  \/ \E n \in Node, text \in Texts : SendMessage(n, 2, text, MaxSends)

SpecStore == Init /\ [][NextStore]_vars

\* Meshes with a cycle, flooded by one message of node 1.  The ring: node 1
\* reaches node 11 directly and over the nodes 2 .. 10, and the recipient 13
\* lies two relays behind node 11.  The triangle: nodes 1, 2 and 3 are all
\* connected and the recipient is 3.  Neighbours have exchanged keys, and so
\* have the sender and the recipient.
Meshes ==
  {[nodes |-> 1..13, recipient |-> 13,
    links |-> {{n, n + 1} : n \in 1..12} \cup {{1, 11}}],
   [nodes |-> 1..3, recipient |-> 3,
    links |-> {{1, 2}, {2, 3}, {1, 3}}]}

MeshKeyed(mesh, n, p) == {n, p} \in mesh.links \/ {n, p} = {1, mesh.recipient}

InitMesh ==
  \E mesh \in Meshes :
    /\ peers = [n \in mesh.nodes |->
                 [p \in {q \in mesh.nodes : MeshKeyed(mesh, n, q)} |-> Keyed(n, p)]]
    /\ links = mesh.links
    /\ InitNode(mesh.nodes)

NextMesh ==
  \/ \E r \in DOMAIN peers[1], text \in Texts :
       /\ \E mesh \in Meshes : mesh.links = links /\ mesh.recipient = r
       /\ SendMessage(1, r, text, ChainIds)
  \/ \E n \in Node : Deliver(n)
  \/ \E n \in Node : StoreMessageReturn(n)

SpecMesh == InitMesh /\ [][NextMesh]_vars

\* The same meshes when every write that was made arrives and every
\* storeMessage call returns.  The data-received callback can run exactly when
\* an envelope is in flight, and its weak fairness is stated with that
\* enabling condition written out.
SpecFlood ==
  /\ InitMesh /\ [][NextMesh]_vars
  /\ WF_vars(\E n \in Node : StoreMessageReturn(n))
  /\ ([]<>(net = {}) \/ []<><<\E n \in Node : Deliver(n)>>_vars)

----------------------------------------------------------------------------
(* Properties *)

Idx(q) == 1..Len(q)
IdOf(data) == data[2]
TtlOf(data) == data[6]
FirstSeen(h) == h.outcome \in {"undecryptable", "decrypted"}
Dist(a, b) == IF a >= b THEN a - b ELSE b - a

\* the callbacks and relays that came out of call h of node n
ReceivedOf(n, h) == {i \in Idx(received[n]) : received[n][i].call = h.call}
RelayedOf(n, h) == {i \in Idx(relayed[n]) : relayed[n][i].call = h.call}
Suspended(n, h) == \E k \in awaiting[n] : k.call = h.call

\* C1 as stated: at every node the message-received callback fires at most
\* once per message id, whatever handleIncomingMessage calls the node is given.
C1_AtMostOncePerId ==
  \A n \in Node : \A i, j \in Idx(received[n]) :
    i # j => received[n][i].message.id # received[n][j].message.id

\* C1 amended: a copy of a message id handed to handleIncomingMessage within
\* 300 s of a first-seen copy of that id is discarded as a duplicate and never
\* reaches the message-received callback; two callbacks for one id come from
\* calls more than 300 s apart.
C1_OncePerCacheWindow ==
  \A n \in Node :
    /\ \A i, j \in Idx(handled[n]) :
         (/\ i < j
          /\ FirstSeen(handled[n][i])
          /\ handled[n][j].outcome # "invalid"
          /\ IdOf(handled[n][i].call.data) = IdOf(handled[n][j].call.data)
          /\ handled[n][j].call.at - handled[n][i].call.at <= CACHE_EXPIRATION_MS)
         => /\ handled[n][j].outcome = "duplicate"
            /\ ReceivedOf(n, handled[n][j]) = {}
    /\ \A i, j \in Idx(received[n]) :
         (i # j /\ received[n][i].message.id = received[n][j].message.id)
         => Dist(received[n][i].call.at, received[n][j].call.at) > CACHE_EXPIRATION_MS

\* a delivered message whose later copy was discarded
C1_Witness ==
  \E n \in Node : \E i, j \in Idx(handled[n]) :
    /\ i < j
    /\ IdOf(handled[n][i].call.data) = IdOf(handled[n][j].call.data)
    /\ ReceivedOf(n, handled[n][i]) # {}
    /\ handled[n][j].outcome = "duplicate"
    /\ Cardinality({k \in Idx(received[n]) :
         received[n][k].message.id = IdOf(handled[n][i].call.data)}) = 1

\* C2 as stated: a node calls relayMessage at most once per message id.
C2_RelayOncePerId ==
  \A n \in Node : \A i, j \in Idx(relayed[n]) :
    i # j => relayed[n][i].messageId # relayed[n][j].messageId

\* C2 amended: a copy handed to handleIncomingMessage within 300 s of a
\* first-seen copy of its message id is never relayed; two relays of one id
\* come from calls more than 300 s apart, and no call relays twice.
C2_RelayOncePerCacheWindow ==
  \A n \in Node :
    /\ \A i, j \in Idx(handled[n]) :
         (/\ i < j
          /\ FirstSeen(handled[n][i])
          /\ handled[n][j].outcome # "invalid"
          /\ IdOf(handled[n][i].call.data) = IdOf(handled[n][j].call.data)
          /\ handled[n][j].call.at - handled[n][i].call.at <= CACHE_EXPIRATION_MS)
         => RelayedOf(n, handled[n][j]) = {}
    /\ \A i, j \in Idx(relayed[n]) :
         (i # j /\ relayed[n][i].messageId = relayed[n][j].messageId)
         => Dist(relayed[n][i].call.at, relayed[n][j].call.at) > CACHE_EXPIRATION_MS

\* a relayed envelope whose later copy (with ttl > 0) was not relayed
C2_Witness ==
  \E n \in Node : \E i, j \in Idx(handled[n]) :
    /\ i < j
    /\ IdOf(handled[n][i].call.data) = IdOf(handled[n][j].call.data)
    /\ RelayedOf(n, handled[n][i]) # {}
    /\ TtlOf(handled[n][j].call.data) > 0
    /\ handled[n][j].outcome = "duplicate"
    /\ RelayedOf(n, handled[n][j]) = {}

\* C3: a relay writes to exactly the devices connected at that moment other
\* than the inbound device of the call, so never to the inbound device.
C3_RelayExcludesInbound ==
  \A n \in Node : \A i \in Idx(relayed[n]) :
    LET r == relayed[n][i]
    IN /\ r.written = r.connected \ {r.call.senderId}
       /\ r.call.senderId \notin r.written

\* a relay made while the inbound device and another device are connected
C3_Witness ==
  \E n \in Node : \E i \in Idx(relayed[n]) :
    /\ relayed[n][i].call.senderId \in relayed[n][i].connected
    /\ relayed[n][i].written # {}

CannotDecrypt(n, h) ==
  LET e == deserializeEnvelope(h.call.data)
      sp == findSenderPeer(n, e.senderId, h.call.senderId)
  IN \/ sp = Null
     \/ peers[n][sp].sharedSecret = NoSecret
     \/ decryptMessage([ciphertext |-> e.encryptedPayload, nonce |-> e.nonce,
                        tag |-> e.tag], peers[n][sp].sharedSecret) = None

\* C6: a first-seen envelope with ttl > 0 that the node cannot decrypt is
\* relayed (once, with ttl - 1) and causes no message-received callback.
C6_UndecryptableStillRelayed ==
  \A n \in Node : \A i \in Idx(handled[n]) :
    LET h == handled[n][i]
    IN (FirstSeen(h) /\ CannotDecrypt(n, h) /\ TtlOf(h.call.data) > 0)
       => /\ Cardinality(RelayedOf(n, h)) = 1
          /\ \A k \in RelayedOf(n, h) :
               TtlOf(relayed[n][k].data) = TtlOf(h.call.data) - 1
          /\ ReceivedOf(n, h) = {}
          /\ ~Suspended(n, h)

\* an undecryptable first-seen envelope with ttl > 0 was handled
C6_Witness ==
  \E n \in Node : \E i \in Idx(handled[n]) :
    /\ FirstSeen(handled[n][i])
    /\ CannotDecrypt(n, handled[n][i])
    /\ TtlOf(handled[n][i].call.data) > 0
    /\ RelayedOf(n, handled[n][i]) # {}

\* C7: a first-seen envelope with ttl > 0 that the node decrypts is, once the
\* call has ended, both delivered to the message-received callback and relayed.
C7_DecryptedDeliversAndRelays ==
  \A n \in Node : \A i \in Idx(handled[n]) :
    LET h == handled[n][i]
    IN (h.outcome = "decrypted" /\ TtlOf(h.call.data) > 0 /\ ~Suspended(n, h))
       => /\ Cardinality(ReceivedOf(n, h)) = 1
          /\ Cardinality(RelayedOf(n, h)) = 1

\* C5: an envelope received with ttl 0 is not relayed, and every envelope in
\* flight or relayed has a ttl between 0 and the initial ttl.
C5_TtlNeverNegative ==
  /\ \A m \in net : TtlOf(m.data) >= 0 /\ TtlOf(m.data) <= INITIAL_MESSAGE_TTL
  /\ \A n \in Node :
       /\ \A i \in Idx(relayed[n]) :
            /\ TtlOf(relayed[n][i].call.data) > 0
            /\ relayed[n][i].data # SerializeError
            /\ TtlOf(relayed[n][i].data) >= 0
       /\ \A i \in Idx(handled[n]) :
            TtlOf(handled[n][i].call.data) = 0 => RelayedOf(n, handled[n][i]) = {}

\* an envelope has arrived with ttl 0 as first copy, and the call has ended
C5_Witness ==
  \E n \in Node : \E i \in Idx(handled[n]) :
    /\ TtlOf(handled[n][i].call.data) = 0
    /\ FirstSeen(handled[n][i])
    /\ ~Suspended(n, handled[n][i])
    /\ RelayedOf(n, handled[n][i]) = {}

\* the step is a sendMessage call of node n that got past storeMessage
SendStep(n) ==
  /\ Len(sendLog'[n]) = Len(sendLog[n]) + 1
  /\ sendLog'[n][Len(sendLog'[n])].error = None

\* C8: sendMessage returns the record delivered and emits 'delivered' exactly
\* when the write to at least one connected device succeeded; otherwise (every
\* write failed, or no device is connected) it returns the record with
\* delivered = false and failed = false, emits nothing, and puts one entry with
\* no attempts under the message id in the retry queue.
C8_DeliveredIffSomeWriteSucceeded ==
  [][\A n \in Node :
       SendStep(n) =>
         LET s == sendLog'[n][Len(sendLog'[n])]
             id == s.message.id
         IN /\ s.ok \subseteq s.written
            /\ s.written = getConnectedDevices(n)
            /\ s.message.delivered <=> s.ok # {}
            /\ s.ok # {} =>
                 /\ statusLog'[n] = Append(statusLog[n], <<id, "delivered">>)
                 /\ messageQueue'[n] = messageQueue[n]
                 /\ id \notin messageQueue'[n]
            /\ s.ok = {} =>
                 /\ ~s.message.delivered /\ ~s.message.failed
                 /\ statusLog'[n] = statusLog[n]
                 /\ id \notin messageQueue[n]
                 /\ messageQueue'[n] = messageQueue[n] \cup {id}
                 /\ queued'[n][id].messageId = id
                 /\ queued'[n][id].attempts = 0]_vars

\* a send whose writes to the connected devices all failed, now queued
C8_Witness ==
  \E n \in Node : \E i \in Idx(sendLog[n]) :
    /\ sendLog[n][i].error = None
    /\ sendLog[n][i].written # {}
    /\ sendLog[n][i].ok = {}
    /\ sendLog[n][i].message.id \in messageQueue[n]
    /\ queued[n][sendLog[n][i].message.id].attempts = 0

\* the retry transmissions of message id at node n
RetriesOf(n, id) == {i \in Idx(retryLog[n]) : retryLog[n][i].messageId = id}

\* the status callbacks for message id at node n
StatusOf(n, id) == {i \in Idx(statusLog[n]) : statusLog[n][i][1] = id}

\* C9: a message is retried at most MAX_SEND_RETRIES times, and once 'failed'
\* has been emitted for it, it is out of the retry queue.
C9_AtMostThreeRetries ==
  \A n \in Node : \A id \in 1..(nextId - 1) :
    /\ Cardinality(RetriesOf(n, id)) <= MAX_SEND_RETRIES
    /\ (\E i \in StatusOf(n, id) : statusLog[n][i][2] = "failed")
       => id \notin messageQueue[n]

\* C10: the status callback is invoked at most once per message id.
C10_StatusAtMostOnce ==
  \A n \in Node : \A id \in 1..(nextId - 1) : Cardinality(StatusOf(n, id)) <= 1

QueuedAt(n, id) ==
  LET i == CHOOSE i \in Idx(sendLog[n]) : sendLog[n][i].message.id = id
  IN sendLog[n][i].message.timestamp

\* C12: the first, second and third retry of a message queued at time t start
\* no earlier than t + 1 s, t + 3 s and t + 7 s, and no retry starts before
\* the due time of its queue entry.
C12_BackoffSchedule ==
  \A n \in Node : \A i \in Idx(retryLog[n]) :
    LET r == retryLog[n][i]
        k == Cardinality({j \in RetriesOf(n, r.messageId) : j <= i})
    IN /\ r.at >= r.due
       /\ k <= MAX_SEND_RETRIES
          => r.at >= QueuedAt(n, r.messageId) + (Pow2(k) - 1) * RETRY_BASE_DELAY_MS

\* C13: a sendMessage call with empty text, text longer than 500 characters,
\* a recipient that is not in the peer table or a recipient without shared
\* secret throws, and stores no message, transmits nothing, queues no retry
\* entry and fires no status callback.
C13_InvalidSendHasNoEffect ==
  [][\A n \in Node :
       Len(sendLog'[n]) = Len(sendLog[n]) + 1 =>
         LET s == sendLog'[n][Len(sendLog'[n])]
             r == s.args[1]
             text == s.args[2]
             invalid == \/ text = ""
                        \/ textLength(text) > 500
                        \/ r \notin DOMAIN peers[n]
                        \/ peers[n][r].sharedSecret = NoSecret
         IN invalid =>
              /\ s.error \notin {None, "storage"}
              /\ s.message = NoMessage
              /\ s.written = {}
              /\ storage' = storage
              /\ net' = net
              /\ messageQueue' = messageQueue
              /\ queued' = queued
              /\ statusLog' = statusLog
              /\ nextId' = nextId]_vars

\* sendMessage was called for a connected recipient without shared secret and
\* threw
C13_Witness ==
  \E n \in Node : \E i \in Idx(sendLog[n]) :
    /\ sendLog[n][i].args[1] \in sendLog[n][i].connected
    /\ sendLog[n][i].args[2] = "hi"
    /\ sendLog[n][i].error = "No shared secret"

\* C14: the envelope sendMessage transmits has version 1 and ttl 10, and the
\* message id and timestamp of the Message record the call returns.
C14_SentEnvelopeMetadata ==
  \A n \in Node : \A i \in Idx(sendLog[n]) :
    LET s == sendLog[n][i]
    IN s.written # {} =>
         /\ s.data # SerializeError
         /\ LET e == deserializeEnvelope(s.data)
            IN /\ e # EnvelopeError
               /\ e.version = 1
               /\ e.ttl = 10
               /\ e.messageId = s.message.id
               /\ e.timestamp = s.message.timestamp

\* a sendMessage call whose envelope reached a device
C14_Witness ==
  \E n \in Node : \E i \in Idx(sendLog[n]) :
    sendLog[n][i].ok # {} /\ sendLog[n][i].message.delivered

\* C15: sendMessage's transmitToAllPeers calls sendData for every connected
\* device whatever the other sends do, every write that can succeed does, and
\* the transmission succeeds (the record is delivered) exactly when at least
\* one did.
C15_FloodNotAborted ==
  \A n \in Node : \A i \in Idx(sendLog[n]) :
    LET s == sendLog[n][i]
    IN s.error = None =>
         /\ s.written = s.connected
         /\ s.ok = s.accepted
         /\ s.message.delivered <=> s.accepted # {}

\* with two devices connected the send to the first failed and the send to
\* the second succeeded
C15_Witness ==
  \E n \in Node : \E i \in Idx(sendLog[n]) :
    /\ sendLog[n][i].connected = {2, 3}
    /\ sendLog[n][i].accepted = {3}
    /\ sendLog[n][i].written = {2, 3}
    /\ sendLog[n][i].message.delivered

\* the messages storeMessage has persisted at node n
Stored(n) == {storage[n][j] : j \in Idx(storage[n])}

\* C16: the message-received callback fires for a message only after
\* storeMessage for that message has completed: the message is in storage and
\* its call is no longer suspended in storeMessage.
C16_StoredBeforeCallback ==
  \A n \in Node : \A i \in Idx(received[n]) :
    /\ received[n][i].message \in Stored(n)
    /\ \A k \in awaiting[n] : k.call # received[n][i].call

\* a message was stored and then handed to the callback
C16_Witness ==
  \E n \in Node :
    /\ Len(received[n]) = 1
    /\ received[n][1].message \in Stored(n)
    /\ received[n][1].message.sent = FALSE

\* storeMessage threw for the decrypted message of call h
StoreFailed(n, h) ==
  /\ h.outcome = "decrypted"
  /\ ~Suspended(n, h)
  /\ \A m \in Stored(n) : m.id # IdOf(h.call.data)

\* C17: when storeMessage fails for a decrypted first-seen envelope, the
\* message-received callback is still invoked and, if ttl > 0, the envelope is
\* still relayed.
C17_StorageErrorContinues ==
  \A n \in Node : \A i \in Idx(handled[n]) :
    LET h == handled[n][i]
    IN StoreFailed(n, h) =>
         /\ ReceivedOf(n, h) # {}
         /\ TtlOf(h.call.data) > 0 => RelayedOf(n, h) # {}

\* bytes that are no valid envelope: too short or too long, unsupported
\* version, ttl out of range, timestamp 0, empty nonce, tag or payload
Malformed(data) ==
  \/ Len(data) # 12
  \/ data[1] # 1
  \/ data[6] < 0 \/ data[6] > 255
  \/ data[5] <= 0
  \/ data[8].length = 0 \/ data[10].length = 0 \/ data[12].length = 0

\* C18: a handleIncomingMessage call with malformed bytes ends as a discard
\* and changes neither the duplicate cache, the storage nor the retry queue,
\* fires no callback and transmits nothing.
C18_MalformedDropped ==
  [][\A n \in Node :
       Len(handled'[n]) = Len(handled[n]) + 1 =>
         LET h == handled'[n][Len(handled'[n])]
         IN Malformed(h.call.data) =>
              /\ h.outcome = "invalid"
              /\ cache' = cache
              /\ awaiting' = awaiting
              /\ storage' = storage
              /\ messageQueue' = messageQueue
              /\ queued' = queued
              /\ received' = received
              /\ statusLog' = statusLog
              /\ relayed' = relayed
              /\ net' = net]_vars

\* truncated bytes and bytes with an invalid field were both discarded
C18_Witness ==
  \E n \in Node : \E i, j \in Idx(handled[n]) :
    /\ Len(handled[n][i].call.data) < 12
    /\ Len(handled[n][j].call.data) = 12
    /\ handled[n][j].call.data[1] = 1
    /\ Malformed(handled[n][j].call.data)
    /\ handled[n][i].outcome = "invalid"
    /\ handled[n][j].outcome = "invalid"
    /\ cache[n] = <<>>

\* C19: when two distinct decryptable envelopes of one sender are handed to
\* handleIncomingMessage from the same device one after the other and both
\* reach the message-received callback, the callback of the first call comes
\* first.
C19_CallbacksInArrivalOrder ==
  \A n \in Node : \A i, j \in Idx(handled[n]) :
    LET h1 == handled[n][i]
        h2 == handled[n][j]
    IN (/\ i < j
        /\ h1.outcome = "decrypted" /\ h2.outcome = "decrypted"
        /\ h1.call.senderId = h2.call.senderId
        /\ IdOf(h1.call.data) # IdOf(h2.call.data)
        /\ ReceivedOf(n, h1) # {} /\ ReceivedOf(n, h2) # {})
       => \A a \in ReceivedOf(n, h1), b \in ReceivedOf(n, h2) : a < b

\* C20: right after a markAsProcessed call at time now the duplicate cache
\* holds no entry with a timestamp before now - 300000 ms.
C20_NoExpiredEntryAfterWrite ==
  [][\A n \in Node :
       cache'[n] # cache[n] =>
         \A id \in DOMAIN cache'[n] : ~(cache'[n][id] < now' - 300000)]_vars

\* an entry was removed after its expiration while a younger one stayed
C20_Witness ==
  \E n \in Node : \E i, j \in Idx(handled[n]) :
    /\ FirstSeen(handled[n][i]) /\ FirstSeen(handled[n][j])
    /\ IdOf(handled[n][i].call.data) \notin DOMAIN cache[n]
    /\ IdOf(handled[n][j].call.data) \in DOMAIN cache[n]

\* the calls in the detector log of node n that mark id: markAsProcessed(id),
\* and the restoration of a persisted cache that holds id
MarksOf(n, id) ==
  {i \in Idx(detectorLog[n]) :
     \/ detectorLog[n][i].op = "markAsProcessed" /\ detectorLog[n][i].id = id
     \/ detectorLog[n][i].op = "initializeApp"
        /\ id \in DOMAIN detectorLog[n][i].snapshot}

\* the step is the detector call `op` of node n
DetectorStep(n, op) ==
  /\ Len(detectorLog'[n]) = Len(detectorLog[n]) + 1
  /\ detectorLog'[n][Len(detectorLog'[n])].op = op

\* C21: isDuplicate(id) is false for every id that was never marked and was
\* not in the persisted cache restored at startup, and it is true in the state
\* right after markAsProcessed(id).
C21_FreshThenDuplicate ==
  /\ [](\A n \in Node : \A id \in 1..DetectorIds :
          MarksOf(n, id) = {} => ~isDuplicate(cache[n], id))
  /\ [][\A n \in Node :
          DetectorStep(n, "markAsProcessed") =>
            isDuplicate(cache'[n], detectorLog'[n][Len(detectorLog'[n])].id)]_vars

\* an id was just marked and is a duplicate while another id, never marked,
\* is not
C21_Witness ==
  \E n \in Node : \E id, other \in 1..DetectorIds :
    /\ detectorLog[n] # <<>>
    /\ detectorLog[n][Len(detectorLog[n])].op = "markAsProcessed"
    /\ detectorLog[n][Len(detectorLog[n])].id = id
    /\ detectorLog[n][Len(detectorLog[n])].at = now
    /\ isDuplicate(cache[n], id)
    /\ MarksOf(n, other) = {}
    /\ ~isDuplicate(cache[n], other)

\* the time of the last call that marked id at node n
LastMarked(n, id) ==
  detectorLog[n][CHOOSE i \in MarksOf(n, id) : \A j \in MarksOf(n, id) : j <= i].at

\* C22: from markAsProcessed(id) at time t0 on, isDuplicate(id) is true at
\* every time before t0 + 300 s, whatever markAsProcessed and pruneCache calls
\* are made in between.
C22_KeptForExpirationTime ==
  \A n \in Node : \A id \in 1..DetectorIds :
    (MarksOf(n, id) # {} /\ now < LastMarked(n, id) + 300000)
      => isDuplicate(cache[n], id)

\* 299 s after an id was marked, and after later markAsProcessed and
\* pruneCache calls at that time, the id is still a duplicate
C22_Witness ==
  \E n \in Node : \E id \in 1..DetectorIds : \E i, j \in Idx(detectorLog[n]) :
    /\ MarksOf(n, id) # {}
    /\ now = LastMarked(n, id) + 299000
    /\ detectorLog[n][i].op = "markAsProcessed" /\ detectorLog[n][i].at = now
    /\ detectorLog[n][j].op = "pruneCache" /\ detectorLog[n][j].at = now
    /\ isDuplicate(cache[n], id)

\* C24: right after the restoration at startup, isDuplicate is false for
\* every id whose persisted timestamp is more than 300 s before the load time.
C24_ExpiredNotRestored ==
  \A n \in Node :
    (Len(detectorLog[n]) = 1 /\ detectorLog[n][1].op = "initializeApp")
      => \A id \in DOMAIN detectorLog[n][1].snapshot :
           detectorLog[n][1].snapshot[id] < detectorLog[n][1].at - 300000
             => ~isDuplicate(cache[n], id)

\* C23: the duplicate cache never holds more than MAX_CACHE_ENTRIES entries
\* after an insertion, however many distinct ids are marked within 300 s.
C23_CacheSoftBounded ==
  \A n \in Node : Cardinality(DOMAIN cache[n]) <= 1000

\* the calls in the codec log that started with serializeEnvelope
Serialized == {i \in Idx(codecLog) : codecLog[i].op = "serialize"}

\* the calls in the codec log that started with deserializeEnvelope
Deserialized == {i \in Idx(codecLog) : codecLog[i].op = "deserialize"}

Canonical(e) ==
  /\ e.messageId > 0
  /\ Len(e.senderId) = 2 /\ e.senderId[1] \in {"sid", "hex"}
  /\ Len(e.recipientId) = 2 /\ e.recipientId[1] \in {"sid", "hex"}
  /\ e.nonce.length <= 1024 /\ e.tag.length <= 1024
  /\ e.encryptedPayload.length <= 10 * 1024 * 1024

C26_BytesRoundTrip ==
  \A i \in Deserialized :
    codecLog[i].envelope # EnvelopeError => codecLog[i].back = codecLog[i].data

\* C27: deserializeEnvelope accepts bytes only if the version is 1, the ttl
\* is in 0..255, the nonce and tag lengths are at most 1024, the payload
\* length is at most 10 MiB, no field runs past the end and nothing follows
\* the payload: header and declared lengths add up to the input length.
C27_AcceptsOnlyWellFormed ==
  \A i \in Deserialized :
    LET x == codecLog[i].data
    IN codecLog[i].envelope # EnvelopeError
       => /\ Len(x) = 12
          /\ x[1] = 1
          /\ x[6] >= 0 /\ x[6] <= 255
          /\ x[7] <= 1024 /\ x[9] <= 1024 /\ x[11] <= 10 * 1024 * 1024
          /\ x[8].length = x[7] /\ x[10].length = x[9] /\ x[12].length = x[11]
          /\ byteLength(x) = 50 + x[7] + x[9] + x[11]

\* bytes with a valid envelope followed by one more byte were rejected
C27_Witness ==
  \E i \in Deserialized :
    /\ Len(codecLog[i].data) = 13
    /\ codecLog[i].data[13].length = 1
    /\ SubSeq(codecLog[i].data, 1, 12) = serializeEnvelope(BaseEnvelope)
    /\ codecLog[i].envelope = EnvelopeError

\* the step is the operation `op` of node n on its peer table
PeerStep(n, op) ==
  /\ peerCall'[n].seq # peerCall[n].seq
  /\ peerCall'[n].op = op

\* the scanned text is, up to case and surrounding blanks, the fingerprint of
\* the public key
Matches(data, publicKey) ==
  trim(toLowerCase(data)) = generateTrustFingerprint(publicKey)

\* C28: a fingerprint scan turns the verified flag of a peer from false to
\* true only if the peer has a public key and the scanned fingerprint matches
\* the fingerprint of that key; with no public key or with another
\* fingerprint the flag stays false.
C28_VerifiedOnlyByMatchingScan ==
  [][\A n \in Node :
       PeerStep(n, "handleBarCodeRead") =>
         \A p \in DOMAIN peers[n] \cap DOMAIN peers'[n] :
           (~peers[n][p].verified /\ peers'[n][p].verified) =>
             /\ p = peerCall'[n].peerId
             /\ peers[n][p].publicKey # Null
             /\ Matches(peerCall'[n].event.data, peers[n][p].publicKey)]_vars

\* C29: in every state of the peer table, whatever discovery, connection,
\* addPeer, updatePeer, removePeer and scan operations led to it, a peer has a
\* shared secret exactly if it has a public key, and only a peer with a public
\* key is verified.
C29_PeerRecordInvariant ==
  \A n \in Node : \A p \in DOMAIN peers[n] :
    /\ (peers[n][p].sharedSecret # NoSecret) = (peers[n][p].publicKey # Null)
    /\ peers[n][p].verified => peers[n][p].publicKey # Null

\* the fields of a peer record other than connected and lastSeen
TrustFields == {"id", "publicKey", "sharedSecret", "name", "verified", "rssi"}

\* C30: a connection-state change event leaves the set of peer records as it
\* is, changes no record of another device and, in the record of its device,
\* no field but connected and lastSeen; and a record leaves the table only in
\* a removePeer step for it.
C30_DisconnectKeepsPeerAndTrust ==
  [][\A n \in Node :
       /\ (PeerStep(n, "connected") \/ PeerStep(n, "disconnected")) =>
            /\ DOMAIN peers'[n] = DOMAIN peers[n]
            /\ \A p \in DOMAIN peers[n] :
                 IF p = peerCall'[n].peerId
                 THEN /\ \A f \in TrustFields : peers'[n][p][f] = peers[n][p][f]
                      /\ peers'[n][p].connected = PeerStep(n, "connected")
                 ELSE peers'[n][p] = peers[n][p]
       /\ \A p \in DOMAIN peers[n] \ DOMAIN peers'[n] :
            PeerStep(n, "removePeer") /\ peerCall'[n].peerId = p]_vars

\* a peer with a public key, a shared secret and verified = true has just
\* been disconnected a second after it was connected: it is still in the
\* table, with its keys and its trust, not connected
C30_Witness ==
  \E n \in Node : \E p \in DOMAIN peers[n] :
    /\ peerCall[n].op = "disconnected" /\ peerCall[n].peerId = p
    /\ peers[n][p].publicKey # Null /\ peers[n][p].sharedSecret # NoSecret
    /\ peers[n][p].verified /\ ~peers[n][p].connected
    /\ peers[n][p].lastSeen = now /\ now > StartTime

\* C31: a connection attempt is not open any more when more than 3 s have
\* passed since it started, and an attempt that led to the device being stored
\* as connected and to the connected = true callback did so within its 3 s:
\* a connect that completes later changes nothing.
C31_TimeoutLeavesUnconnected ==
  \A n \in Node : \A a \in DOMAIN ble[n].attempts :
    LET attempt == ble[n].attempts[a]
    IN /\ attempt.state = "racing" => now <= attempt.startedAt + 3000
       /\ attempt.state = "connected" => attempt.doneAt <= attempt.startedAt + 3000

\* C37: once disconnectFromPeer(d) has returned and the disconnection event
\* of the connection it cancelled has been handled, no reconnect timer for d
\* is pending (until the user connects to d again).
C37_NoReconnectAfterUserDisconnect ==
  \A n \in Node : \A d \in ble[n].userDisconnected \ ble[n].cancelled :
    /\ d \notin DOMAIN ble[n].reconnectTimeouts
    /\ \A timer \in ble[n].timers : ~(timer.kind = "reconnect" /\ timer.device = d)

\* no connectToPeer call for device d is open and no reconnect to d is scheduled
NoAttemptUnderWay(n, d) ==
  /\ \A a \in DOMAIN ble[n].attempts :
       ~(ble[n].attempts[a].device = d /\ ble[n].attempts[a].state = "racing")
  /\ \A timer \in ble[n].timers : ~(timer.kind = "reconnect" /\ timer.device = d)

\* C39: when a scan discovers a device that is not connected and for which
\* no connection attempt is under way, a new connection attempt for it starts,
\* also when the device is already in the peer table because an earlier
\* attempt failed or timed out.
C39_RediscoveryStartsAttempt ==
  [][\A n \in Node :
       PeerStep(n, "handleDeviceDiscovered") =>
         LET d == peerCall'[n].peerId
         IN ({n, d} \notin links /\ NoAttemptUnderWay(n, d)) =>
              /\ Len(ble'[n].attempts) = Len(ble[n].attempts) + 1
              /\ ble'[n].attempts[Len(ble'[n].attempts)].device = d]_vars

\* the secret device a derived for device b
SecretOf(a, b) == crypto.device[a].secrets[b]

\* C32: when two devices that run the same crypto service have each derived
\* the shared secret from the other's public key, the two secrets are equal.
C32_KeyAgreementCommutes ==
  \A a, b \in {1, 2} :
    (/\ b \in DOMAIN crypto.device[a].secrets
     /\ a \in DOMAIN crypto.device[b].secrets
     /\ SecretOf(a, b).peerPublicKey = SecretOf(b, a).publicKey
     /\ SecretOf(b, a).peerPublicKey = SecretOf(a, b).publicKey)
      => SecretOf(a, b).sharedSecret = SecretOf(b, a).sharedSecret

\* C33: on a device whose key store never failed and whose initialize calls
\* followed one another, an initialized service holds the key pair the first
\* initialize generated, that pair is the persisted one, and no pair was
\* generated while one was persisted.
C33_IdentityCreatedOnce ==
  \A d \in {1, 2} :
    LET device == crypto.device[d]
    IN (~device.storeFailed /\ ~device.overlapped) =>
         /\ ~device.regenerated
         /\ device.instance.initialized =>
              /\ device.first # NoKeyPair /\ device.stored = device.first
              /\ device.instance.publicKey = getKeyPair(device.first).publicKey
              /\ device.instance.privateKey = getKeyPair(device.first).privateKey

\* the third initialize call of a device returned on a new instance after a
\* restart, and the instance holds the pair the first call generated
C33_Witness ==
  \E d \in {1, 2} :
    LET device == crypto.device[d]
    IN /\ ~device.storeFailed /\ ~device.overlapped /\ device.restarted
       /\ device.started = 3 /\ device.calls = <<>>
       /\ device.instance.initialized
       /\ device.first # NoKeyPair /\ device.stored = device.first
       /\ device.instance.privateKey = getKeyPair(device.first).privateKey
       /\ device.instance.privateKey # device.instance.publicKey

\* the nodes at most k links away from a node of S
RECURSIVE Within(_, _)
Within(S, k) ==
  IF k = 0 THEN S
  ELSE Within(S \cup UNION {getConnectedDevices(n) : n \in S}, k - 1)

\* no envelope is in flight and no handler is suspended
Quiet == net = {} /\ \A n \in Node : awaiting[n] = {}

\* every write sendMessage and relayMessage made succeeded: it is in flight or
\* was handed to the handler of the device written to
AllWritesSucceeded ==
  /\ \A n \in Node : \A i \in Idx(sendLog[n]) :
       sendLog[n][i].error = None => sendLog[n][i].ok = sendLog[n][i].connected
  /\ \A n \in Node : \A i \in Idx(relayed[n]) : \A p \in relayed[n][i].written :
       \/ [src |-> n, dst |-> p, data |-> relayed[n][i].data] \in net
       \/ \E j \in Idx(handled[p]) :
            /\ handled[p][j].call.senderId = n
            /\ handled[p][j].call.data = relayed[n][i].data

\* no storeMessage call of an inbound handler threw
NoStoreFailed ==
  \A n \in Node : \A i \in Idx(handled[n]) :
    handled[n][i].outcome = "decrypted" =>
      Suspended(n, handled[n][i]) \/ ReceivedOf(n, handled[n][i]) # {}

\* C34: when every write succeeded and the mesh has come to rest, a recipient
\* that is at most ten relays away from the sender has emitted
\* message_received for the message sent to it.
C34_RelayReachesRecipient ==
  \A n \in Node : \A i \in Idx(sendLog[n]) :
    LET sent == sendLog[n][i]
        recipient == sent.args[1]
    IN (/\ sent.error = None
        /\ AllWritesSucceeded /\ NoStoreFailed /\ Quiet
        /\ recipient \in Within({n}, INITIAL_MESSAGE_TTL + 1))
         => \E j \in Idx(received[recipient]) :
              received[recipient][j].message.id = sent.message.id

\* C35: a node neither emits message_received for a message it sent itself
\* nor relays it.
C35_OwnMessageNotInbound ==
  \A n \in Node : \A i \in Idx(sendLog[n]) :
    sendLog[n][i].error = None =>
      /\ \A j \in Idx(received[n]) :
           received[n][j].message.id # sendLog[n][i].message.id
      /\ \A j \in Idx(relayed[n]) :
           relayed[n][j].messageId # sendLog[n][i].message.id

\* every node relays a message id at most once
RelaysAtMostOnce ==
  \A n \in Node : \A i, j \in Idx(relayed[n]) :
    i # j => relayed[n][i].messageId # relayed[n][j].messageId

\* C36: in a mesh with cycles every node relays the message at most once, so
\* the transmissions are at most one per link and direction, and the mesh
\* comes to rest with no envelope in flight.
C36_FloodingTerminates == [](RelaysAtMostOnce) /\ <>[](Quiet)

\* the flood went round the cycle (a copy came back to a node that had seen
\* the message) and the mesh is at rest
C36_Witness ==
  /\ Quiet
  /\ \E n \in Node : \E i \in Idx(handled[n]) : handled[n][i].outcome = "duplicate"
  /\ Cardinality({n \in Node : relayed[n] # <<>>}) >= 3

\* the message list read back from storage for a peer
getMessages(n, peerId) == getItem(disk[n].items, peerId)

\* C38: the persisted history of a peer contains every message whose
\* storeMessage call completed successfully.
C38_NoStoredMessageLost ==
  \A n \in Node : \A i \in Idx(storage[n]) :
    \E j \in Idx(getMessages(n, storage[n][i].peerId)) :
      getMessages(n, storage[n][i].peerId)[j] = storage[n][i]

\* C40: once delivered or failed has been reported for a sent message, the
\* record of that message read back from storage carries that status.
C40_HistoryAgreesWithStatus ==
  \A n \in Node : \A i \in Idx(statusLog[n]) :
    \A p \in DOMAIN disk[n].items : \A j \in Idx(getMessages(n, p)) :
      LET record == getMessages(n, p)[j]
          status == statusLog[n][i][2]
      IN (record.sent /\ record.id = statusLog[n][i][1]) =>
           /\ record.delivered = (status = "delivered")
           /\ record.failed = (status = "failed")

====
